---- MODULE Spec2Model ----
(***************************************************************************)
(* Behavioural biometric verification engine of Zenith-iD-Portal:          *)
(* backend/biometrics (BehavioralAnalyzer, WebBehaviorAnalyzer and the     *)
(* views that call them).                                                  *)
(*                                                                         *)
(* Numbers.  A Python float that holds a mean is modelled as the exact     *)
(* rational [num, den]; a score, confidence or risk in [0,1] is modelled   *)
(* as an integer number of units, One units making 1.0.  One is chosen so  *)
(* that every weighted score of the code (0.7 * 0.5, 0.7 * 0.4,            *)
(* matching/9 * 0.1, ...) is a whole number of units.                      *)
(*                                                                         *)
(* Python values.  A JSON value that the code expects to be a mapping is   *)
(* modelled with a kind: "dict" (a mapping), "absent" (key missing, None   *)
(* or an empty mapping: all falsy, and `.get` of the default {} gives the  *)
(* defaults) or "str" (a non-empty non-mapping, on which `.get` raises     *)
(* AttributeError).  A feature map (a Python dict) is a TLA+ function      *)
(* whose DOMAIN is the set of keys present.                                *)
(***************************************************************************)
EXTENDS Integers, Sequences, FiniteSets, TLC

VARIABLES
    stored_profile,   \* the profile snapshot handed to a matcher
    current_data,     \* the sample handed to a matcher
    result,           \* what the verification call returned
    profiles,         \* BiometricProfile rows: user -> row
    sessions,         \* BiometricSession rows: session_id -> row
    records,          \* number of BehavioralBiometrics rows per user
    reqs,             \* in-flight data-collection requests: id -> frame
    logs,             \* BiometricVerificationLog rows, in the order of their ids
    upd,              \* the profile mapping update_biometric_profile works on
    cross_profiles    \* CrossPlatformProfile rows: user -> row

vars == <<stored_profile, current_data, result, profiles, sessions, records, reqs,
          logs, upd, cross_profiles>>

-----------------------------------------------------------------------------
(* Bounds *)

\* longest raw key_hold_times / mouse_movements list a sample carries
MaxLen == 2

\* number of concurrent data-collection requests
MaxRequests == 3

\* number of times the updater is applied to one batch
MaxApply == 2

\* number of BehavioralBiometrics rows / of verification log rows stored
MaxRecords == 2
MaxLog == 2

-----------------------------------------------------------------------------
(* Fixed-point arithmetic *)

\* the nine attributes _create_browser_fingerprint writes
FingerprintKeys ==
    {"user_agent", "language", "platform", "hardware_concurrency", "device_memory",
     "screen_resolution", "timezone", "canvas_fingerprint", "webgl_fingerprint"}

\* units per 1.0: thousandths, times the number of fingerprint attributes
One == 1000 * Cardinality(FingerprintKeys)

\* p / 100 as units
Pct(p) == (p * One) \div 100

Max(a, b) == IF a >= b THEN a ELSE b
Min(a, b) == IF a <= b THEN a ELSE b
Abs(a) == IF a >= 0 THEN a ELSE 0 - a

\* the rational n / d
Rat(n, d) == [num |-> n, den |-> d]

\* abs(stored - current) / max(stored, 1) <= p/100, on exact rationals
RelDiffLE(stored, current, p) ==
    100 * Abs(stored.num * current.den - current.num * stored.den)
        <= p * Max(stored.num, stored.den) * current.den

RelDiffGT(stored, current, p) == ~RelDiffLE(stored, current, p)

\* a stored JSON value that is not a number: a non-empty string
NotANumber == [k |-> "str"]

IsNumber(x) == "num" \in DOMAIN x

\* a Python number is truthy when it is not zero, a non-empty string always
Truthy(x) == IF IsNumber(x) THEN x.num # 0 ELSE TRUE

Empty == <<>>

RECURSIVE SeqSum(_)
SeqSum(s) == IF s = <<>> THEN 0 ELSE Head(s) + SeqSum(Tail(s))

RECURSIVE SeqSumSq(_)
SeqSumSq(s) == IF s = <<>> THEN 0 ELSE Head(s) * Head(s) + SeqSumSq(Tail(s))

\* sequences over S of length 0..n
SeqUpTo(S, n) == UNION {[1..k -> S] : k \in 0..n}

-----------------------------------------------------------------------------
(* Raw records.  An item of a raw list is a number, a mapping (whose       *)
(* relevant field is v, 0 when the field is missing or zero) or a string.  *)

Num(v) == [k |-> "num", v |-> v]
Dict(v) == [k |-> "dict", v |-> v]
Str == [k |-> "str", v |-> 0]

Values(items) == [i \in 1..Len(items) |-> items[i].v]

AllNum(items) == \A i \in 1..Len(items) : items[i].k = "num"
AllDict(items) == \A i \in 1..Len(items) : items[i].k = "dict"

\* statistics.mean(values) over a non-empty list of numbers
Mean(values) == Rat(SeqSum(values), Len(values))

\* statistics.stdev(values) squared when len > 1, else 0: the sample variance
\*   (n * sum(x^2) - sum(x)^2) / (n * (n - 1))
Variance(values) ==
    IF Len(values) > 1
    THEN Rat(Len(values) * SeqSumSq(values) - SeqSum(values) * SeqSum(values),
             Len(values) * (Len(values) - 1))
    ELSE Rat(0, 1)

-----------------------------------------------------------------------------
(* BehavioralAnalyzer: feature extraction *)

\* the hold values of lines 108-113, or "raise" when building them raises:
\* item.get on a non-mapping item of a list whose first item is a mapping
HoldValues(hold_times) ==
    IF hold_times[1].k = "dict"
    THEN IF AllDict(hold_times)
         THEN LET kept == SelectSeq(hold_times, LAMBDA item : item.v # 0)
              IN  [i \in 1..Len(kept) |-> Num(kept[i].v)]
         ELSE <<Str>>
    ELSE hold_times

\* _extract_typing_features with the exception made visible:
\* f is the returned feature map, exc says the except clause ran
ExtractTyping(typing_pattern) ==
    IF typing_pattern.kind = "str"
    THEN [f |-> Empty, exc |-> TRUE]                 \* .get raises
    ELSE
    LET hold_times == IF typing_pattern.kind = "dict"
                      THEN typing_pattern.key_hold_times ELSE <<>>
        flight_times == IF typing_pattern.kind = "dict"
                        THEN typing_pattern.flight_times ELSE <<>>
        hold_values == IF hold_times = <<>> THEN <<>> ELSE HoldValues(hold_times)
        holdRaises == hold_values # <<>> /\ ~AllNum(hold_values)
        flightRaises == flight_times # <<>> /\ ~AllNum(flight_times)
        holdF == IF hold_values # <<>> /\ ~holdRaises
                 THEN [key \in {"avg_hold_time", "hold_time_std"} |->
                         IF key = "avg_hold_time"
                         THEN Mean(Values(hold_values))
                         ELSE Variance(Values(hold_values))]
                 ELSE Empty
        flightF == IF ~holdRaises /\ flight_times # <<>> /\ ~flightRaises
                   THEN [key \in {"avg_flight_time", "flight_time_std"} |->
                           IF key = "avg_flight_time"
                           THEN Mean(Values(flight_times))
                           ELSE Variance(Values(flight_times))]
                   ELSE Empty
    IN  [f |-> holdF @@ flightF,
         exc |-> holdRaises \/ flightRaises]

\* a variant that skips unparseable records instead of giving up on the channel
ExtractTypingFeatures_skip(typing_pattern) ==
    IF typing_pattern.kind # "dict" THEN Empty
    ELSE LET good == SelectSeq(typing_pattern.key_hold_times,
                               LAMBDA item : item.k # "str" /\ item.v # 0)
         IN  IF good = <<>> THEN Empty
             ELSE [key \in {"avg_hold_time", "hold_time_std"} |->
                     IF key = "avg_hold_time" THEN Mean(Values(good))
                     ELSE Variance(Values(good))]

_extract_typing_features(typing_pattern) == ExtractTyping(typing_pattern).f

\* _extract_touch_features with the exception made visible
ExtractTouch(touch_patterns) ==
    IF touch_patterns.kind = "str"
    THEN [f |-> Empty, exc |-> TRUE]
    ELSE
    LET swipe_data == IF touch_patterns.kind = "dict"
                      THEN touch_patterns.swipe_speeds ELSE <<>>
        touch_data == IF touch_patterns.kind = "dict"
                      THEN touch_patterns.touch_pressures ELSE <<>>
        swipeRaises == swipe_data # <<>> /\ ~AllNum(swipe_data)
        touchRaises == touch_data # <<>> /\ ~AllNum(touch_data)
        swipeF == IF swipe_data # <<>> /\ ~swipeRaises
                  THEN [key \in {"avg_swipe_speed", "swipe_speed_std"} |->
                          IF key = "avg_swipe_speed"
                          THEN Mean(Values(swipe_data))
                          ELSE Variance(Values(swipe_data))]
                  ELSE Empty
        touchF == IF ~swipeRaises /\ touch_data # <<>> /\ ~touchRaises
                  THEN [key \in {"avg_touch_pressure", "touch_pressure_std"} |->
                          IF key = "avg_touch_pressure"
                          THEN Mean(Values(touch_data))
                          ELSE Variance(Values(touch_data))]
                  ELSE Empty
    IN  [f |-> swipeF @@ touchF,
         exc |-> swipeRaises \/ touchRaises]

_extract_touch_features(touch_patterns) == ExtractTouch(touch_patterns).f

-----------------------------------------------------------------------------
(* BehavioralAnalyzer: channel matchers *)

\* a channel of the sample is truthy
Present(channel) == channel.kind # "absent"

\* a variant that scores a mean hold time within 20 % as a full match
VerifyTypingPattern_full(current_typing, profile) ==
    LET current_features == _extract_typing_features(current_typing)
    IN  IF "avg_hold_time" \in DOMAIN current_features
           /\ profile.typical_hold_times # Empty
           /\ IsNumber(profile.avg_typing_speed)
           /\ RelDiffLE(profile.avg_typing_speed, current_features["avg_hold_time"], 20)
        THEN One ELSE 0

\* _verify_typing_pattern: 0.7 within 20 %, 0.3 within 40 %, of avg_typing_speed
_verify_typing_pattern(current_typing, profile) ==
    LET current_features == _extract_typing_features(current_typing)
        similarity_score ==
            IF "avg_hold_time" \in DOMAIN current_features
               /\ profile.typical_hold_times # Empty
            THEN LET stored_avg == profile.avg_typing_speed
                     current_avg == current_features["avg_hold_time"]
                 IN  IF ~IsNumber(stored_avg) THEN 0   \* abs(str - float) raises: 0.0
                     ELSE IF RelDiffLE(stored_avg, current_avg, 20) THEN Pct(70)
                     ELSE IF RelDiffLE(stored_avg, current_avg, 40) THEN Pct(30)
                     ELSE 0
            ELSE 0
    IN  Min(similarity_score, One)

\* _verify_touch_patterns: 0.5 for the swipe speed within 30 %, 0.5 for the
\* pressure within 25 %
_verify_touch_patterns(current_touch, profile) ==
    LET current_features == _extract_touch_features(current_touch)
        swipe == IF "avg_swipe_speed" \in DOMAIN current_features
                    /\ Truthy(profile.avg_swipe_speed)
                    /\ RelDiffLE(profile.avg_swipe_speed,
                                 current_features["avg_swipe_speed"], 30)
                 THEN Pct(50) ELSE 0
        pressure == IF "avg_touch_pressure" \in DOMAIN current_features
                       /\ Truthy(profile.typical_touch_pressure)
                       /\ RelDiffLE(profile.typical_touch_pressure,
                                    current_features["avg_touch_pressure"], 25)
                    THEN Pct(50) ELSE 0
    IN  Min(swipe + pressure, One)

\* a variant that credits the OS without comparing it
VerifyDevice_anyos(current_device, profile) ==
    IF current_device.kind # "dict" THEN 0
    ELSE IF current_device.device_id # "" /\ current_device.device_id \in profile.trusted_devices
    THEN One
    ELSE IF current_device.os # "" /\ profile.typical_os # "" THEN Pct(50) ELSE 0

\* _verify_device: 1.0 for a trusted device id, else 0.5 for the typical OS
_verify_device(current_device, profile) ==
    IF current_device.kind # "dict" THEN 0           \* .get raises, caught: 0.0
    ELSE
    LET current_device_id == current_device.device_id
        current_os == current_device.os
        stored_typical_os == profile.typical_os
    IN  IF current_device_id # "" /\ current_device_id \in profile.trusted_devices
        THEN One
        ELSE IF current_os # "" /\ stored_typical_os # "" /\ current_os = stored_typical_os
             THEN Pct(50)
             ELSE 0

\* _detect_anomalies: both rules sit in one try block, so a rule that raises
\* ends the detection with the tags appended so far
_detect_anomalies(sample, profile) ==
    IF sample.kind # "dict" THEN <<>> ELSE
    LET current_typing == _extract_typing_features(sample.typing_pattern)
        applicable == "avg_hold_time" \in DOMAIN current_typing
                      /\ Truthy(profile.avg_typing_speed)
        typingRaises == applicable /\ ~IsNumber(profile.avg_typing_speed)
        typing == IF applicable /\ ~typingRaises
                     /\ RelDiffGT(profile.avg_typing_speed, current_typing["avg_hold_time"], 50)
                  THEN <<"typing_speed_anomaly">> ELSE <<>>
        current_device == sample.device_characteristics
    IN  IF typingRaises
        THEN <<>>                       \* abs(str - float) raises, caught
        ELSE IF current_device.kind = "str"
        THEN typing                     \* .get raises, caught: the tags so far
        ELSE typing \o (IF current_device.kind = "dict" /\ current_device.device_id # ""
                           /\ current_device.device_id \notin profile.trusted_devices
                        THEN <<"unfamiliar_device">> ELSE <<>>)

-----------------------------------------------------------------------------
(* BehavioralAnalyzer.verify_behavioral_match *)

\* score * weight, the weight in percent
Weighted(score, weight) == (score * weight) \div 100

\* a variant that weighs typing 0.4, as BehavioralBiometrics.calculate_confidence does
MobileConfidenceFactors_w40(sample, profile) ==
    (IF Present(sample.typing_pattern) /\ profile.typical_hold_times # Empty
     THEN <<Weighted(_verify_typing_pattern(sample.typing_pattern, profile), 40)>>
     ELSE <<>>)
    \o (IF Present(sample.touch_patterns) /\ Truthy(profile.avg_swipe_speed)
        THEN <<Weighted(_verify_touch_patterns(sample.touch_patterns, profile), 30)>>
        ELSE <<>>)
    \o (IF Present(sample.device_characteristics)
        THEN <<Weighted(_verify_device(sample.device_characteristics, profile), 30)>>
        ELSE <<>>)

\* confidence_factors of lines 49-74: one weighted score per channel that is
\* in the sample and (typing, touch) has a baseline in the profile
MobileConfidenceFactors(sample, profile) ==
    (IF Present(sample.typing_pattern) /\ profile.typical_hold_times # Empty
     THEN <<Weighted(_verify_typing_pattern(sample.typing_pattern, profile), 50)>>
     ELSE <<>>)
    \o (IF Present(sample.touch_patterns) /\ Truthy(profile.avg_swipe_speed)
        THEN <<Weighted(_verify_touch_patterns(sample.touch_patterns, profile), 30)>>
        ELSE <<>>)
    \o (IF Present(sample.device_characteristics)
        THEN <<Weighted(_verify_device(sample.device_characteristics, profile), 20)>>
        ELSE <<>>)

\* lines 76-80: the sum of the factors, 0.0 when there is none
OverallConfidence(confidence_factors) ==
    IF confidence_factors # <<>> THEN SeqSum(confidence_factors) ELSE 0

\* a variant without the cap at 1.0
MobileRisk_nocap(overall_confidence, anomalies) ==
    LET risk_score == Max(0, One - overall_confidence)
    IN  IF anomalies # <<>> THEN risk_score + Len(anomalies) * Pct(20) ELSE risk_score

\* a variant with the web penalty
MobileRisk_p15(overall_confidence, anomalies) ==
    LET risk_score == Max(0, One - overall_confidence)
    IN  IF anomalies # <<>>
        THEN Min(One, risk_score + Len(anomalies) * Pct(15))
        ELSE risk_score

\* lines 82-88: the inverse of the confidence, plus 0.2 per anomaly, capped
MobileRisk(overall_confidence, anomalies) ==
    LET risk_score == Max(0, One - overall_confidence)
    IN  IF anomalies # <<>>
        THEN Min(One, risk_score + Len(anomalies) * Pct(20))
        ELSE risk_score

\* the (is_match, confidence, risk) of verify_behavioral_match; a sample that
\* is no mapping raises at its first .get and the outer except answers
verify_behavioral_match(sample, profile) ==
    IF sample.kind # "dict"
    THEN [is_match |-> FALSE, confidence |-> 0, risk |-> One]
    ELSE
    LET overall_confidence == OverallConfidence(MobileConfidenceFactors(sample, profile))
        anomalies == _detect_anomalies(sample, profile)
    IN  [is_match |-> overall_confidence >= Pct(70),
         confidence |-> overall_confidence,
         risk |-> MobileRisk(overall_confidence, anomalies)]

-----------------------------------------------------------------------------
(* WebBehaviorAnalyzer: feature extraction.  An item of a web raw list is  *)
(* a mapping whose fields are numbers (Num(0): missing or zero) or strings *)
(* (Str), or it is no mapping at all (NotMapping).                         *)

NotMapping == [k |-> "str"]
Move(speed) == [k |-> "dict", speed |-> speed]
Key(hold_time, next_key_delay) ==
    [k |-> "dict", hold_time |-> hold_time, next_key_delay |-> next_key_delay]
Scroll(speed) == [k |-> "dict", speed |-> speed]

AllMappings(items) == \A i \in 1..Len(items) : items[i].k = "dict"

\* a field value is truthy: a non-zero number or a (non-empty) string
TruthyField(x) == x.k = "str" \/ x.v # 0

\* [e.get(field) for e in items if e.get(field)], for the named field
Column(items, field) ==
    LET kept == SelectSeq(items, LAMBDA e : TruthyField(e[field]))
    IN  [i \in 1..Len(kept) |-> kept[i][field]]

\* {avg: mean, std: stdev} of a non-empty list of numbers
Stats(values, avg, std) ==
    [key \in {avg, std} |-> IF key = avg THEN Mean(Values(values))
                            ELSE Variance(Values(values))]

\* _extract_mouse_features (the samples carry no x / y coordinates)
_extract_mouse_features(mouse_movements) ==
    IF mouse_movements = <<>> THEN Empty
    ELSE IF ~AllMappings(mouse_movements) THEN Empty           \* .get raises
    ELSE LET speeds == Column(mouse_movements, "speed")
         IN  IF speeds # <<>> /\ AllNum(speeds)
             THEN Stats(speeds, "avg_mouse_speed", "mouse_speed_std")
             ELSE Empty                                         \* none, or mean raises

\* _extract_scroll_features (the speed part)
_extract_scroll_features(scroll_events) ==
    IF scroll_events = <<>> THEN Empty
    ELSE IF ~AllMappings(scroll_events) THEN Empty
    ELSE LET speeds == Column(scroll_events, "speed")
         IN  IF speeds # <<>> /\ AllNum(speeds)
             THEN Stats(speeds, "avg_scroll_speed", "scroll_speed_std")
             ELSE Empty

\* _extract_web_typing_features: the hold statistics survive a failure of the
\* flight statistics, not the other way round
_extract_web_typing_features(keystroke_timing) ==
    IF keystroke_timing = <<>> THEN Empty
    ELSE IF ~AllMappings(keystroke_timing) THEN Empty
    ELSE LET hold_times == Column(keystroke_timing, "hold_time")
             flight_times == Column(keystroke_timing, "next_key_delay")
             holdRaises == ~AllNum(hold_times)
             holdF == IF hold_times # <<>> /\ ~holdRaises
                      THEN Stats(hold_times, "avg_hold_time", "hold_time_std")
                      ELSE Empty
             flightF == IF ~holdRaises /\ flight_times # <<>> /\ AllNum(flight_times)
                        THEN Stats(flight_times, "avg_flight_time", "flight_time_std")
                        ELSE Empty
         IN  holdF @@ flightF

\* _create_browser_fingerprint: the nine attributes of a browser_info mapping
_create_browser_fingerprint(browser_info) ==
    IF browser_info.kind = "dict" THEN browser_info.attrs ELSE Empty

-----------------------------------------------------------------------------
(* WebBehaviorAnalyzer: channel matchers *)

_verify_mouse_patterns(current_movements, stored_patterns) ==
    LET current_features == _extract_mouse_features(current_movements)
    IN  IF "avg_mouse_speed" \in DOMAIN current_features
           /\ "avg_mouse_speed" \in DOMAIN stored_patterns
           /\ RelDiffLE(stored_patterns["avg_mouse_speed"],
                        current_features["avg_mouse_speed"], 30)
        THEN Min(Pct(70), One) ELSE 0

_verify_web_typing(current_typing, stored_rhythm) ==
    LET current_features == _extract_web_typing_features(current_typing)
        hold == IF "avg_hold_time" \in DOMAIN current_features
                   /\ "avg_hold_time" \in DOMAIN stored_rhythm
                   /\ RelDiffLE(stored_rhythm["avg_hold_time"],
                                current_features["avg_hold_time"], 25)
                THEN Pct(50) ELSE 0
        flight == IF "avg_flight_time" \in DOMAIN current_features
                     /\ "avg_flight_time" \in DOMAIN stored_rhythm
                     /\ RelDiffLE(stored_rhythm["avg_flight_time"],
                                  current_features["avg_flight_time"], 30)
                  THEN Pct(50) ELSE 0
    IN  Min(hold + flight, One)

_verify_scroll_behavior(current_scroll, stored_patterns) ==
    LET current_features == _extract_scroll_features(current_scroll)
    IN  IF "avg_scroll_speed" \in DOMAIN current_features
           /\ "avg_scroll_speed" \in DOMAIN stored_patterns
           /\ RelDiffLE(stored_patterns["avg_scroll_speed"],
                        current_features["avg_scroll_speed"], 40)
        THEN Min(One, One) ELSE 0

\* _verify_browser_fingerprint: the fraction of the stored attributes the
\* current fingerprint matches
_verify_browser_fingerprint(current_browser, stored_fingerprint) ==
    LET current_fingerprint == _create_browser_fingerprint(current_browser)
        total_attributes == Cardinality(DOMAIN stored_fingerprint)
        matching_attributes ==
            Cardinality({key \in DOMAIN stored_fingerprint :
                            key \in DOMAIN current_fingerprint
                            /\ current_fingerprint[key] = stored_fingerprint[key]})
    IN  IF total_attributes = 0 THEN 0
        ELSE (matching_attributes * One) \div total_attributes

\* a variant that compares fingerprints only when one is stored
DetectWebAnomalies_enrolled(sample, profile) ==
    IF sample.kind # "dict" THEN <<>> ELSE
    LET mouse_features == _extract_mouse_features(sample.mouse_movements)
        browser_confidence ==
            _verify_browser_fingerprint(sample.browser_info, profile.browser_fingerprint)
    IN  (IF "mouse_speed_std" \in DOMAIN mouse_features
            /\ 100 * mouse_features["mouse_speed_std"].num
                 < mouse_features["mouse_speed_std"].den
         THEN <<"robotic_mouse_movements">> ELSE <<>>)
        \o (IF profile.browser_fingerprint # Empty /\ browser_confidence < Pct(30)
            THEN <<"browser_fingerprint_mismatch">> ELSE <<>>)

\* _detect_web_anomalies
_detect_web_anomalies(sample, profile) ==
    IF sample.kind # "dict" THEN <<>> ELSE
    LET mouse_features == _extract_mouse_features(sample.mouse_movements)
        browser_confidence ==
            _verify_browser_fingerprint(sample.browser_info, profile.browser_fingerprint)
    IN  (IF "mouse_speed_std" \in DOMAIN mouse_features
            /\ 100 * mouse_features["mouse_speed_std"].num
                 < mouse_features["mouse_speed_std"].den        \* std < 0.1
         THEN <<"robotic_mouse_movements">> ELSE <<>>)
        \o (IF browser_confidence < Pct(30)
            THEN <<"browser_fingerprint_mismatch">> ELSE <<>>)

-----------------------------------------------------------------------------
(* WebBehaviorAnalyzer.verify_web_behavior *)

WebConfidenceFactors(sample, profile) ==
    (IF sample.mouse_movements # <<>> /\ profile.mouse_patterns # Empty
     THEN <<Weighted(_verify_mouse_patterns(sample.mouse_movements,
                                            profile.mouse_patterns), 40)>>
     ELSE <<>>)
    \o (IF sample.keystroke_timing # <<>> /\ profile.typing_rhythm # Empty
        THEN <<Weighted(_verify_web_typing(sample.keystroke_timing,
                                           profile.typing_rhythm), 30)>>
        ELSE <<>>)
    \o (IF sample.scroll_events # <<>> /\ profile.scroll_patterns # Empty
        THEN <<Weighted(_verify_scroll_behavior(sample.scroll_events,
                                                profile.scroll_patterns), 20)>>
        ELSE <<>>)
    \o (IF Present(sample.browser_info)
        THEN <<Weighted(_verify_browser_fingerprint(sample.browser_info,
                                                    profile.browser_fingerprint), 10)>>
        ELSE <<>>)

\* a variant without the cap at 1.0
WebRisk_nocap(overall_confidence, anomalies) ==
    LET risk_score == Max(0, One - overall_confidence)
    IN  IF anomalies # <<>> THEN risk_score + Len(anomalies) * Pct(15) ELSE risk_score

\* lines 79-84: the inverse of the confidence, plus 0.15 per anomaly, capped
WebRisk(overall_confidence, anomalies) ==
    LET risk_score == Max(0, One - overall_confidence)
    IN  IF anomalies # <<>>
        THEN Min(One, risk_score + Len(anomalies) * Pct(15))
        ELSE risk_score

verify_web_behavior(sample, profile) ==
    IF sample.kind # "dict"
    THEN [is_match |-> FALSE, confidence |-> 0, risk |-> One]
    ELSE
    LET overall_confidence == OverallConfidence(WebConfidenceFactors(sample, profile))
        anomalies == _detect_web_anomalies(sample, profile)
    IN  [is_match |-> overall_confidence >= Pct(65),
         confidence |-> overall_confidence,
         risk |-> WebRisk(overall_confidence, anomalies)]

-----------------------------------------------------------------------------
(* views.py: the decision *)

\* a variant that takes the matcher's word for success
PrepareVerificationResult_match(is_match, confidence, risk_score) ==
    LET status_str == IF is_match THEN "success"
                      ELSE IF confidence >= Pct(50) THEN "suspicious"
                      ELSE "failed"
    IN  [is_verified |-> is_match,
         confidence_score |-> confidence,
         risk_score |-> risk_score,
         status |-> status_str,
         requires_challenge |-> status_str = "suspicious",
         challenge_type |-> IF status_str = "suspicious" THEN "otp" ELSE "None"]

\* a variant whose challenge band starts at 0.55
VerificationResult_band(is_match, confidence, risk_score) ==
    LET status_str == IF is_match /\ confidence >= Pct(70) THEN "success"
                      ELSE IF confidence >= Pct(55) THEN "suspicious"
                      ELSE "failed"
    IN  [is_verified |-> is_match /\ confidence >= Pct(70),
         confidence_score |-> confidence,
         risk_score |-> risk_score,
         status |-> status_str,
         requires_challenge |-> status_str = "suspicious",
         challenge_type |-> IF status_str = "suspicious" THEN "otp" ELSE "None"]

\* BiometricVerificationView.post, lines 166-199: status and result_data
VerificationResult(is_match, confidence, risk_score) ==
    LET status_str == IF is_match /\ confidence >= Pct(70) THEN "success"
                      ELSE IF confidence >= Pct(50) THEN "suspicious"
                      ELSE "failed"
    IN  [is_verified |-> is_match /\ confidence >= Pct(70),
         confidence_score |-> confidence,
         risk_score |-> risk_score,
         status |-> status_str,
         requires_challenge |-> status_str = "suspicious",
         challenge_type |-> IF status_str = "suspicious" THEN "otp" ELSE "None"]

\* CrossPlatformVerificationView._prepare_verification_result
_prepare_verification_result(is_match, confidence, risk_score) ==
    LET status_str == IF is_match /\ confidence >= Pct(70) THEN "success"
                      ELSE IF confidence >= Pct(50) THEN "suspicious"
                      ELSE "failed"
    IN  [is_verified |-> is_match /\ confidence >= Pct(70),
         confidence_score |-> confidence,
         risk_score |-> risk_score,
         status |-> status_str,
         requires_challenge |-> status_str = "suspicious",
         challenge_type |-> IF status_str = "suspicious" THEN "otp" ELSE "None"]

\* CrossPlatformVerificationView._verify_web_behavior
_verify_web_behavior(biometric_sample, profile_data) ==
    LET m == verify_web_behavior(biometric_sample, profile_data.web_profile)
    IN  _prepare_verification_result(m.is_match, m.confidence, m.risk)

\* CrossPlatformVerificationView._verify_mobile_behavior
_verify_mobile_behavior(biometric_sample, profile_data) ==
    LET m == verify_behavioral_match(biometric_sample, profile_data.mobile_profile)
    IN  _prepare_verification_result(m.is_match, m.confidence, m.risk)

\* WebDataCollectionView._update_cross_platform_profile, lines 409-416: the
\* web_profile a collected sample leaves behind
WebFeatures(web_data) ==
    [mouse_patterns |-> _extract_mouse_features(web_data.mouse_movements),
     typing_rhythm |-> _extract_web_typing_features(web_data.keystroke_timing),
     scroll_patterns |-> _extract_scroll_features(web_data.scroll_events),
     browser_fingerprint |-> _create_browser_fingerprint(web_data.browser_info)]

-----------------------------------------------------------------------------
(* Inputs: samples and profile snapshots *)

Absent == [kind |-> "absent"]
NonMapping == [kind |-> "str"]

HoldItems == {Num(175), Num(240), Dict(150), Str}
HoldLists == SeqUpTo(HoldItems, MaxLen)
FlightLists == {<<Num(200)>>, <<Str>>}

TypingChannels ==
    {Absent, NonMapping}
    \cup {[kind |-> "dict", key_hold_times |-> h, flight_times |-> f] :
             h \in HoldLists, f \in FlightLists}

TouchChannels ==
    {Absent}
    \cup {[kind |-> "dict", swipe_speeds |-> sw, touch_pressures |-> pr] :
             sw \in {<<Num(13)>>, <<Str>>}, pr \in {<<Num(5)>>, <<Num(6)>>}}

DeviceChannels ==
    {Absent, NonMapping}
    \cup {[kind |-> "dict", device_id |-> d, os |-> o] :
             d \in {"", "d1", "d2"}, o \in {"", "ios"}}
    \cup {[kind |-> "dict", device_id |-> "d2", os |-> "android"]}

\* biometric_sample of a mobile verification request; DictField lets only
\* mappings through, request.data.get('biometric_sample') lets anything
MobileSamples ==
    {NonMapping}
    \cup {[kind |-> "dict", typing_pattern |-> t, touch_patterns |-> c,
           device_characteristics |-> d] :
             t \in TypingChannels, c \in TouchChannels, d \in DeviceChannels}

\* BiometricProfile as its serializer gives it (no device_characteristics key,
\* so no typical_os), or a mobile_profile JSON mapping
MobileProfile(speed, hold, swipe, pressure, devices, os) ==
    [avg_typing_speed |-> Rat(speed, 1),
     typical_hold_times |-> hold,
     avg_swipe_speed |-> Rat(swipe, 1),
     typical_touch_pressure |-> Rat(pressure, 1),
     trusted_devices |-> devices,
     typical_os |-> os]

\* BiometricProfile.objects.get_or_create(user=user): the model's defaults
DefaultMobileProfile == MobileProfile(0, Empty, 0, 0, {}, "")

TypicalHoldTimes == {Empty, [c \in {"a"} |-> 150]}

MobileProfiles(touches, oses) ==
    {MobileProfile(speed, hold, touch[1], touch[2], devices, os) :
        speed \in {0, 100, 150}, hold \in TypicalHoldTimes, touch \in touches,
        devices \in {{}, {"d1"}}, os \in oses}

\* mobile_profile is a JSONField: nothing types its values, so the baseline
\* may be a string such as "150"
UntypedMobileProfiles ==
    {[MobileProfile(0, hold, 10, 4, devices, "ios") EXCEPT !.avg_typing_speed = NotANumber] :
        hold \in TypicalHoldTimes, devices \in {{}, {"d1"}}}

EmptyWebProfile ==
    [mouse_patterns |-> Empty, typing_rhythm |-> Empty,
     scroll_patterns |-> Empty, browser_fingerprint |-> Empty]

\* a browser_info mapping whose attributes are "a", but "b" on the keys of diff
Browser(diff) ==
    [kind |-> "dict",
     attrs |-> [key \in FingerprintKeys |-> IF key \in diff THEN "b" ELSE "a"]]

BrowserInfos ==
    {Absent, NonMapping, Browser({}),
     Browser({"timezone", "language"}),
     Browser(FingerprintKeys \ {"user_agent", "platform"})}

MouseItems == {Move(Num(10)), Move(Num(20)), NotMapping}
MouseLists == SeqUpTo(MouseItems, MaxLen)

KeystrokeLists ==
    {<<>>, <<Key(Num(100), Num(200))>>, <<Key(Num(120), Num(400))>>,
     <<Key(Num(100), Str)>>, <<NotMapping>>}

ScrollLists == {<<>>, <<Scroll(Num(7))>>, <<Scroll(Str)>>}

WebSamples ==
    {NonMapping}
    \cup {[kind |-> "dict", mouse_movements |-> m, keystroke_timing |-> k,
           scroll_events |-> sc, browser_info |-> b] :
             m \in MouseLists, k \in KeystrokeLists, sc \in ScrollLists,
             b \in BrowserInfos}

\* the samples whose collection wrote the stored web profiles
EnrolSamples ==
    {[kind |-> "dict", mouse_movements |-> <<Move(Num(10))>>,
      keystroke_timing |-> <<Key(Num(100), Num(200))>>,
      scroll_events |-> <<Scroll(Num(5))>>, browser_info |-> Browser({})],
     [kind |-> "dict", mouse_movements |-> <<>>,
      keystroke_timing |-> <<Key(Num(100), Num(200))>>,
      scroll_events |-> <<>>, browser_info |-> Absent]}

WebProfiles == {EmptyWebProfile} \cup {WebFeatures(e) : e \in EnrolSamples}

\* the profile snapshot a verification view reads: a BiometricProfile row
\* through BiometricProfileSerializer, or a CrossPlatformProfile row
ProfileSnapshots ==
    {[table |-> "BiometricProfile", data |-> m] :
        m \in MobileProfiles({<<0, 0>>, <<10, 4>>}, {""})}
    \cup {[table |-> "CrossPlatformProfile",
           data |-> [mobile_profile |-> m, web_profile |-> EmptyWebProfile]] :
             m \in MobileProfiles({<<10, 4>>}, {"ios"})}
    \cup {[table |-> "CrossPlatformProfile",
           data |-> [mobile_profile |-> m, web_profile |-> EmptyWebProfile]] :
             m \in UntypedMobileProfiles}
    \cup {[table |-> "CrossPlatformProfile",
           data |-> [mobile_profile |-> DefaultMobileProfile, web_profile |-> w]] :
             w \in WebProfiles \ {EmptyWebProfile}}

NoResult == [view |-> "none"]
NoSample == [kind |-> "none"]
NoUpdate == [times |-> 0]

-----------------------------------------------------------------------------
(* The matchers applied: one verification call on one profile snapshot *)

Users == {"u1", "u2"}
SessionIds == {"s1", "s2"}
\* session_id is a CharField without default: a session that is created
\* without one (start_biometric_session) is stored under ''
StoredSessionIds == SessionIds \cup {""}

\* no BiometricProfile row / no BiometricSession row
NoProfile == [exists |-> FALSE, samples_collected |-> 0, trusted_devices |-> {}]
\* a row that get_or_create(user=user) has just created: the model's defaults
FreshProfile == [exists |-> TRUE, samples_collected |-> 0, trusted_devices |-> {}]
\* no CrossPlatformProfile row
NoCrossProfile == [exists |-> FALSE]
NoSession == [exists |-> FALSE, user |-> "", data_points_collected |-> 0,
              is_active |-> FALSE]

\* the empty database
InitStore ==
    /\ profiles = [u \in Users |-> NoProfile]
    /\ sessions = [sid \in StoredSessionIds |-> NoSession]
    /\ records = [u \in Users |-> 0]
    /\ cross_profiles = [u \in Users |-> NoCrossProfile]

InitMatch ==
    /\ stored_profile \in ProfileSnapshots
    /\ current_data = NoSample
    /\ result = NoResult
    /\ InitStore
    /\ reqs = <<>>
    /\ logs = <<>>
    /\ upd = NoUpdate

\* the requests of the verification calls below are u1's
Caller == "u1"

\* variant: the two scores change places
LogEntry_swapped(user, res) ==
    [user |-> user, status |-> res.status, confidence_score |-> res.risk_score,
     risk_score |-> res.confidence_score, anomaly_detected |-> res.risk_score > Pct(70)]

\* BiometricVerificationLog.objects.create(...), views.py 178-188 and 462-472
LogEntry(user, res) ==
    [user |-> user, status |-> res.status, confidence_score |-> res.confidence_score,
     risk_score |-> res.risk_score, anomaly_detected |-> res.risk_score > Pct(70)]

\* BiometricVerificationView.post, lines 159-205, on a profile that exists
BiometricVerify ==
    /\ result = NoResult
    /\ stored_profile.table = "BiometricProfile"
    /\ \E sample \in {x \in MobileSamples : x.kind = "dict"} :
         LET m == verify_behavioral_match(sample, stored_profile.data)
         IN  /\ current_data' = sample
             /\ result' = [view |-> "BiometricVerificationView", platform |-> "mobile",
                           match |-> m,
                           res |-> VerificationResult(m.is_match, m.confidence, m.risk),
                           verification_id |-> Len(logs) + 1]
             /\ logs' = Append(logs, LogEntry(Caller, result'.res))
    /\ UNCHANGED <<stored_profile, profiles, sessions, records, reqs, upd, cross_profiles>>

\* CrossPlatformVerificationView.post with platform = mobile, lines 453-454
CrossVerifyMobile ==
    /\ result = NoResult
    /\ stored_profile.table = "CrossPlatformProfile"
    /\ \E sample \in MobileSamples :
         /\ current_data' = sample
         /\ result' = [view |-> "CrossPlatformVerificationView", platform |-> "mobile",
                       match |-> verify_behavioral_match(sample,
                                     stored_profile.data.mobile_profile),
                       res |-> _verify_mobile_behavior(sample, stored_profile.data),
                       verification_id |-> Len(logs) + 1]
         /\ logs' = Append(logs, LogEntry(Caller, result'.res))
    /\ UNCHANGED <<stored_profile, profiles, sessions, records, reqs, upd, cross_profiles>>

\* CrossPlatformVerificationView.post with platform = web, lines 451-452
CrossVerifyWeb ==
    /\ result = NoResult
    /\ stored_profile.table = "CrossPlatformProfile"
    /\ \E sample \in WebSamples :
         /\ current_data' = sample
         /\ result' = [view |-> "CrossPlatformVerificationView", platform |-> "web",
                       match |-> verify_web_behavior(sample, stored_profile.data.web_profile),
                       res |-> _verify_web_behavior(sample, stored_profile.data),
                       verification_id |-> Len(logs) + 1]
         /\ logs' = Append(logs, LogEntry(Caller, result'.res))
    /\ UNCHANGED <<stored_profile, profiles, sessions, records, reqs, upd, cross_profiles>>

NextMatch ==
    \/ BiometricVerify
    \/ CrossVerifyMobile
    \/ CrossVerifyWeb

SpecMatch == InitMatch /\ [][NextMatch]_vars

-----------------------------------------------------------------------------
(* BiometricDataCollectionView.post, statement by statement: requests of   *)
(* several workers interleave between two statements that touch the        *)
(* database.  A frame holds the model instances the request has loaded:    *)
(* session and profile are the in-memory copies that save() writes back.   *)

Frame(user, session_id) ==
    [user |-> user, session_id |-> session_id, pc |-> "start",
     session |-> NoSession, profile |-> NoProfile]

InitConc ==
    /\ stored_profile = [table |-> "none"]
    /\ current_data = NoSample
    /\ result = NoResult
    /\ InitStore
    /\ reqs \in [1..MaxRequests -> {Frame(u, sid) : u \in Users, sid \in SessionIds}]
    /\ logs = <<>>
    /\ upd = NoUpdate

\* lines 39-47: BiometricSession.objects.get_or_create(session_id, user);
\* session_id is unique, so a session of another user makes the create fail
GetOrCreateSession(r) ==
    /\ reqs[r].pc = "start"
    /\ LET row == sessions[reqs[r].session_id]
           fresh == [exists |-> TRUE, user |-> reqs[r].user,
                     data_points_collected |-> 0, is_active |-> TRUE]
       IN  \/ /\ row.exists /\ row.user = reqs[r].user
              /\ reqs' = [reqs EXCEPT ![r].session = row, ![r].pc = "record"]
              /\ UNCHANGED sessions
           \/ /\ ~row.exists
              /\ sessions' = [sessions EXCEPT ![reqs[r].session_id] = fresh]
              /\ reqs' = [reqs EXCEPT ![r].session = fresh, ![r].pc = "record"]
           \/ /\ row.exists /\ row.user # reqs[r].user      \* IntegrityError
              /\ reqs' = [reqs EXCEPT ![r].pc = "error"]    \* lines 101-106: 500
              /\ UNCHANGED sessions
    /\ UNCHANGED <<stored_profile, current_data, result, profiles, records, logs, upd, cross_profiles>>

\* lines 72-85: BehavioralBiometrics.objects.create(...), calculate_confidence, save
CreateRecord(r) ==
    /\ reqs[r].pc = "record"
    /\ records' = [records EXCEPT ![reqs[r].user] = @ + 1]
    /\ reqs' = [reqs EXCEPT ![r].pc = "session"]
    /\ UNCHANGED <<stored_profile, current_data, result, profiles, sessions, logs, upd, cross_profiles>>

\* lines 88-89: session.data_points_collected += 1; session.save()
SaveSession(r) ==
    /\ reqs[r].pc = "session"
    /\ LET loaded == reqs[r].session
           saved == [loaded EXCEPT !.data_points_collected = @ + 1]
       IN  /\ sessions' = [sessions EXCEPT ![reqs[r].session_id] = saved]
           /\ reqs' = [reqs EXCEPT ![r].session = saved, ![r].pc = "profile"]
    /\ UNCHANGED <<stored_profile, current_data, result, profiles, records, logs, upd, cross_profiles>>

\* line 124: BiometricProfile.objects.get_or_create(user=user)
LoadProfile(r) ==
    /\ reqs[r].pc = "profile"
    /\ LET row == profiles[reqs[r].user]
           fresh == FreshProfile
       IN  IF row.exists
           THEN /\ reqs' = [reqs EXCEPT ![r].profile = row, ![r].pc = "save"]
                /\ UNCHANGED profiles
           ELSE /\ profiles' = [profiles EXCEPT ![reqs[r].user] = fresh]
                /\ reqs' = [reqs EXCEPT ![r].profile = fresh, ![r].pc = "save"]
    /\ UNCHANGED <<stored_profile, current_data, result, sessions, records, logs, upd, cross_profiles>>

\* lines 128-130: profile.samples_collected += 1; profile.save()
SaveProfile(r) ==
    /\ reqs[r].pc = "save"
    /\ LET loaded == reqs[r].profile
           saved == [loaded EXCEPT !.samples_collected = @ + 1]
       IN  /\ profiles' = [profiles EXCEPT ![reqs[r].user] = saved]
           /\ reqs' = [reqs EXCEPT ![r].profile = saved, ![r].pc = "done"]   \* 201
    /\ UNCHANGED <<stored_profile, current_data, result, sessions, records, logs, upd, cross_profiles>>

NextConc ==
    \E r \in 1..MaxRequests :
        \/ GetOrCreateSession(r)
        \/ CreateRecord(r)
        \/ SaveSession(r)
        \/ LoadProfile(r)
        \/ SaveProfile(r)

SpecConc == InitConc /\ [][NextConc]_vars

-----------------------------------------------------------------------------
(* The profile updater, applied to a profile mapping and a batch           *)

\* "if s.get(channel)": None, {} and "" are falsy
TruthyChannel(channel) ==
    \/ channel.kind = "str"
    \/ channel.kind = "dict" /\ (channel.device_id # "" \/ channel.os # "")

\* [s.get('device_characteristics', {}) for s in new_samples
\*  if s.get('device_characteristics')], line 275
DeviceSamples(new_samples) ==
    LET RECURSIVE Pick(_)
        Pick(i) ==
            IF i > Len(new_samples) THEN <<>>
            ELSE (IF TruthyChannel(new_samples[i].device_characteristics)
                  THEN <<new_samples[i].device_characteristics>> ELSE <<>>) \o Pick(i + 1)
    IN  Pick(1)

\* the device ids the loop of lines 303-306 adds: "if device_id and ..."
BatchDeviceIds(device_samples) ==
    {device_samples[i].device_id : i \in 1..Len(device_samples)} \ {""}

\* variant: the set starts empty instead of from the profile's devices
UpdateDeviceProfile_replace(profile, new_samples) ==
    [profile EXCEPT !.trusted_devices = BatchDeviceIds(new_samples)]

\* _update_device_profile, lines 298-309, on samples that are all mappings
_update_device_profile(profile, new_samples) ==
    [profile EXCEPT !.trusted_devices = @ \cup BatchDeviceIds(new_samples)]

\* s.get on a sample that is no mapping (line 264), sample.get on a device
\* channel that is no mapping (line 304): AttributeError, raised before the
\* profile has been assigned anything
UpdateRaises(new_samples) ==
    \/ \E i \in 1..Len(new_samples) : new_samples[i].kind # "dict"
    \/ \E i \in 1..Len(new_samples) :
           new_samples[i].kind = "dict" /\ new_samples[i].device_characteristics.kind = "str"

\* update_biometric_profile, lines 255-285; _update_typing_profile and
\* _update_touch_profile (287-296) return the profile as it is
update_biometric_profile(profile_data, new_samples) ==
    IF new_samples = <<>> THEN profile_data
    ELSE IF UpdateRaises(new_samples) THEN profile_data
    ELSE LET device_samples == DeviceSamples(new_samples)
             merged == IF device_samples # <<>>
                       THEN _update_device_profile(profile_data, device_samples)
                       ELSE profile_data
         IN  IF "samples_collected" \in DOMAIN merged
             THEN [merged EXCEPT !.samples_collected = @ + Len(new_samples)]
             ELSE merged          \* KeyError at line 279, after the devices

\* samples of a batch: what matters to the updater is the device channel
BatchSamples ==
    {NonMapping}
    \cup {[kind |-> "dict", typing_pattern |-> Absent, touch_patterns |-> Absent,
           device_characteristics |-> d] :
             d \in {Absent, NonMapping,
                    [kind |-> "dict", device_id |-> "", os |-> "ios"],
                    [kind |-> "dict", device_id |-> "d1", os |-> "ios"],
                    [kind |-> "dict", device_id |-> "d2", os |-> "android"]}}

Batches == SeqUpTo(BatchSamples, MaxLen)

\* profile mappings: a BiometricProfile's fields, or a JSON mapping that
\* carries no samples_collected
ProfileData ==
    {[trusted_devices |-> t, samples_collected |-> n] : t \in {{}, {"d1"}}, n \in {0, 3}}
    \cup {[trusted_devices |-> t] : t \in {{}, {"d1"}}}

\* the mapping and the batch the updater is given beside the API's requests
UpdaterProfile == [trusted_devices |-> {"d1"}, samples_collected |-> 3]
UpdaterBatch ==
    <<[kind |-> "dict", typing_pattern |-> Absent, touch_patterns |-> Absent,
       device_characteristics |-> [kind |-> "dict", device_id |-> "d2", os |-> "android"]]>>

InitUpdate ==
    /\ stored_profile = [table |-> "none"]
    /\ current_data = NoSample
    /\ result = NoResult
    /\ InitStore
    /\ reqs = <<>>
    /\ logs = <<>>
    /\ upd \in {[times |-> 0, original |-> p, batch |-> b, profile |-> p, once |-> p] :
                   p \in ProfileData, b \in Batches}

\* profile = update_biometric_profile(profile, batch), once more
ApplyUpdate ==
    /\ upd.times < MaxApply
    /\ LET updated == update_biometric_profile(upd.profile, upd.batch)
       IN  upd' = [upd EXCEPT !.times = @ + 1, !.profile = updated,
                              !.once = IF upd.times = 0 THEN updated ELSE @]
    /\ UNCHANGED <<stored_profile, current_data, result, profiles, sessions, records,
                   reqs, logs, cross_profiles>>

NextUpdate == ApplyUpdate

SpecUpdate == InitUpdate /\ [][NextUpdate]_vars

-----------------------------------------------------------------------------
(* The API's handlers on the database, one request at a time               *)

\* BiometricProfileSerializer(profile).data of a row nothing but the
\* collection view has written: the model's defaults and the row's devices
ProfileOf(row) == [DefaultMobileProfile EXCEPT !.trusted_devices = row.trusted_devices]

\* CrossPlatformProfile.objects.get_or_create(user=user): mobile_profile and
\* web_profile default to {}
FreshCrossProfile ==
    [exists |-> TRUE, mobile_profile |-> DefaultMobileProfile,
     web_profile |-> EmptyWebProfile]

FreshSession(user) ==
    [exists |-> TRUE, user |-> user, data_points_collected |-> 0, is_active |-> TRUE]

\* biometric_data as the collection view builds it (lines 49-66); the
\* verification requests carry the same samples
StoreMobileSamples ==
    {[kind |-> "dict",
      typing_pattern |-> [kind |-> "dict", key_hold_times |-> <<Num(175)>>,
                          flight_times |-> <<Num(200)>>],
      touch_patterns |-> [kind |-> "dict", swipe_speeds |-> <<>>, touch_pressures |-> <<>>],
      device_characteristics |-> [kind |-> "dict", device_id |-> d, os |-> "ios"]] :
        d \in {"d1", "d2"}}

\* biometric_sample of the verification requests: the collected samples, one
\* with every channel filled, one without a device
StoreVerifySamples ==
    StoreMobileSamples
    \cup {[kind |-> "dict",
           typing_pattern |-> [kind |-> "dict", key_hold_times |-> <<Num(175)>>,
                               flight_times |-> <<Num(200)>>],
           touch_patterns |-> [kind |-> "dict", swipe_speeds |-> <<Num(13)>>,
                               touch_pressures |-> <<Num(5)>>],
           device_characteristics |-> d] :
             d \in {Absent, [kind |-> "dict", device_id |-> "d1", os |-> "ios"]}}

StoreWebSamples ==
    {[kind |-> "dict", mouse_movements |-> <<Move(Num(10))>>,
      keystroke_timing |-> <<Key(Num(100), Num(200))>>,
      scroll_events |-> <<Scroll(Num(5))>>, browser_info |-> Browser({})],
     [kind |-> "dict", mouse_movements |-> <<Move(Num(20))>>,
      keystroke_timing |-> <<>>,
      scroll_events |-> <<Scroll(Num(5))>>, browser_info |-> Browser({"language"})]}

\* what a handler answered, to whom, and the request fields the properties
\* below name
Response(view, http, user) == [view |-> view, http |-> http, user |-> user]

TotalRecords == records["u1"] + records["u2"]

\* variant: the profile counts the sample before the session is looked up
StoreCollect_countfirst(user, session_id, sample) ==
    /\ TotalRecords < MaxRecords
    /\ current_data' = sample
    /\ LET row == sessions[session_id]
           session == IF row.exists THEN row ELSE FreshSession(user)
           profile == IF profiles[user].exists THEN profiles[user] ELSE FreshProfile
       IN  /\ profiles' = [profiles EXCEPT ![user] =
                               [profile EXCEPT !.samples_collected = @ + 1]]
           /\ IF row.exists /\ row.user # user
              THEN /\ result' = Response("BiometricDataCollectionView", 500, user)
                                 @@ [session_id |-> session_id]
                   /\ UNCHANGED <<sessions, records>>
              ELSE /\ records' = [records EXCEPT ![user] = @ + 1]
                   /\ sessions' = [sessions EXCEPT ![session_id] =
                                       [session EXCEPT !.data_points_collected = @ + 1]]
                   /\ result' = Response("BiometricDataCollectionView", 201, user)
                                 @@ [session_id |-> session_id,
                                     record_id |-> TotalRecords + 1]
    /\ UNCHANGED <<stored_profile, reqs, logs, upd, cross_profiles>>

\* variant: the collected sample's device becomes trusted
StoreCollect_learn(user, session_id, sample) ==
    /\ TotalRecords < MaxRecords
    /\ current_data' = sample
    /\ LET row == sessions[session_id]
           session == IF row.exists THEN row ELSE FreshSession(user)
           profile == IF profiles[user].exists THEN profiles[user] ELSE FreshProfile
       IN  IF row.exists /\ row.user # user
           THEN /\ result' = Response("BiometricDataCollectionView", 500, user)
                              @@ [session_id |-> session_id]
                /\ UNCHANGED <<sessions, records, profiles>>
           ELSE /\ records' = [records EXCEPT ![user] = @ + 1]
                /\ sessions' = [sessions EXCEPT ![session_id] =
                                    [session EXCEPT !.data_points_collected = @ + 1]]
                /\ profiles' = [profiles EXCEPT ![user] =
                                    [profile EXCEPT !.samples_collected = @ + 1,
                                                    !.trusted_devices = @ \cup
                                                       {sample.device_characteristics.device_id}]]
                /\ result' = Response("BiometricDataCollectionView", 201, user)
                              @@ [session_id |-> session_id, record_id |-> TotalRecords + 1]
    /\ UNCHANGED <<stored_profile, reqs, logs, upd, cross_profiles>>

\* BiometricDataCollectionView.post, lines 31-111, with _update_user_profile
StoreCollect(user, session_id, sample) ==
    /\ TotalRecords < MaxRecords
    /\ current_data' = sample
    /\ LET row == sessions[session_id]
           session == IF row.exists THEN row ELSE FreshSession(user)
           profile == IF profiles[user].exists THEN profiles[user] ELSE FreshProfile
       IN  IF row.exists /\ row.user # user                \* IntegrityError: 500
           THEN /\ result' = Response("BiometricDataCollectionView", 500, user)
                              @@ [session_id |-> session_id]
                /\ UNCHANGED <<sessions, records, profiles>>
           ELSE /\ records' = [records EXCEPT ![user] = @ + 1]
                /\ sessions' = [sessions EXCEPT ![session_id] =
                                    [session EXCEPT !.data_points_collected = @ + 1]]
                /\ profiles' = [profiles EXCEPT ![user] =
                                    [profile EXCEPT !.samples_collected = @ + 1]]
                /\ result' = Response("BiometricDataCollectionView", 201, user)
                              @@ [session_id |-> session_id, record_id |-> TotalRecords + 1]
    /\ UNCHANGED <<stored_profile, reqs, logs, upd, cross_profiles>>

\* variant: a channel the new sample leaves empty keeps its stored features
StoreWebCollect_merge(user, session_id, web_data) ==
    /\ TotalRecords < MaxRecords
    /\ current_data' = web_data
    /\ LET row == sessions[session_id]
           profile == IF cross_profiles[user].exists THEN cross_profiles[user]
                      ELSE FreshCrossProfile
           merged == [channel \in DOMAIN WebFeatures(web_data) |->
                         IF WebFeatures(web_data)[channel] = Empty
                         THEN profile.web_profile[channel]
                         ELSE WebFeatures(web_data)[channel]]
       IN  IF row.exists /\ row.user # user
           THEN /\ result' = Response("WebDataCollectionView", 500, user)
                              @@ [session_id |-> session_id]
                /\ UNCHANGED <<sessions, records, cross_profiles>>
           ELSE /\ sessions' = [sessions EXCEPT ![session_id] =
                                    IF row.exists THEN row ELSE FreshSession(user)]
                /\ records' = [records EXCEPT ![user] = @ + 1]
                /\ cross_profiles' = [cross_profiles EXCEPT ![user] =
                                          [profile EXCEPT !.web_profile = merged]]
                /\ result' = Response("WebDataCollectionView", 201, user)
                              @@ [session_id |-> session_id, record_id |-> TotalRecords + 1]
    /\ UNCHANGED <<stored_profile, profiles, reqs, logs, upd>>

\* WebDataCollectionView.post, lines 311-400, with
\* _update_cross_platform_profile; records counts BehavioralBiometrics rows
StoreWebCollect(user, session_id, web_data) ==
    /\ TotalRecords < MaxRecords
    /\ current_data' = web_data
    /\ LET row == sessions[session_id]
           profile == IF cross_profiles[user].exists THEN cross_profiles[user]
                      ELSE FreshCrossProfile
       IN  IF row.exists /\ row.user # user                \* IntegrityError: 500
           THEN /\ result' = Response("WebDataCollectionView", 500, user)
                              @@ [session_id |-> session_id]
                /\ UNCHANGED <<sessions, records, cross_profiles>>
           ELSE /\ sessions' = [sessions EXCEPT ![session_id] =
                                    IF row.exists THEN row ELSE FreshSession(user)]
                /\ records' = [records EXCEPT ![user] = @ + 1]
                /\ cross_profiles' = [cross_profiles EXCEPT ![user] =
                                          [profile EXCEPT !.web_profile = WebFeatures(web_data)]]
                /\ result' = Response("WebDataCollectionView", 201, user)
                              @@ [session_id |-> session_id, record_id |-> TotalRecords + 1]
    /\ UNCHANGED <<stored_profile, profiles, reqs, logs, upd>>

\* variant: a verified sample's device becomes trusted
StoreVerify_learn(user, sample) ==
    /\ Len(logs) < MaxLog
    /\ current_data' = sample
    /\ IF ~profiles[user].exists
       THEN /\ result' = Response("BiometricVerificationView", 400, user)
            /\ UNCHANGED <<logs, profiles>>
       ELSE LET m == verify_behavioral_match(sample, ProfileOf(profiles[user]))
                res == VerificationResult(m.is_match, m.confidence, m.risk)
            IN  /\ result' = Response("BiometricVerificationView", 200, user)
                              @@ [res |-> res, verification_id |-> Len(logs) + 1]
                /\ logs' = Append(logs, LogEntry(user, result'.res))
                /\ profiles' = [profiles EXCEPT ![user].trusted_devices =
                                    @ \cup {sample.device_characteristics.device_id}]
    /\ UNCHANGED <<stored_profile, sessions, records, reqs, upd, cross_profiles>>

\* BiometricVerificationView.post, lines 141-217
StoreVerify(user, sample) ==
    /\ Len(logs) < MaxLog
    /\ current_data' = sample
    /\ IF ~profiles[user].exists
       THEN /\ result' = Response("BiometricVerificationView", 400, user)
            /\ UNCHANGED logs
       ELSE LET m == verify_behavioral_match(sample, ProfileOf(profiles[user]))
                res == VerificationResult(m.is_match, m.confidence, m.risk)
            IN  /\ result' = Response("BiometricVerificationView", 200, user)
                              @@ [res |-> res, verification_id |-> Len(logs) + 1]
                /\ logs' = Append(logs, LogEntry(user, result'.res))
    /\ UNCHANGED <<stored_profile, profiles, sessions, records, reqs, upd, cross_profiles>>

\* CrossPlatformVerificationView.post, lines 433-486: the profile lookup
\* comes first, then the platform branch; any platform other than 'web' and
\* 'mobile' is answered with 400 before anything is verified or logged
StoreCrossVerify(user, platform, sample) ==
    /\ Len(logs) < MaxLog
    /\ current_data' = sample
    /\ IF ~cross_profiles[user].exists
       THEN /\ result' = Response("CrossPlatformVerificationView", 400, user)
                             @@ [platform |-> platform, message |-> "No cross-platform profile found"]
            /\ UNCHANGED logs
       ELSE IF platform \notin {"web", "mobile"}
       THEN /\ result' = Response("CrossPlatformVerificationView", 400, user)
                             @@ [platform |-> platform, message |-> "Unsupported platform"]
            /\ UNCHANGED logs
       ELSE LET res == IF platform = "web"
                       THEN _verify_web_behavior(sample, cross_profiles[user])
                       ELSE _verify_mobile_behavior(sample, cross_profiles[user])
            IN  /\ result' = Response("CrossPlatformVerificationView", 200, user)
                              @@ [platform |-> platform, res |-> res,
                                  verification_id |-> Len(logs) + 1]
                /\ logs' = Append(logs, LogEntry(user, result'.res))
    /\ UNCHANGED <<stored_profile, profiles, sessions, records, reqs, upd, cross_profiles>>

\* BiometricProfileView.get_object, lines 219-226: the read creates the row
ProfileRead(user) ==
    /\ LET profile == IF profiles[user].exists THEN profiles[user] ELSE FreshProfile
       IN  /\ profiles' = [profiles EXCEPT ![user] = profile]
           /\ result' = Response("BiometricProfileView", 200, user) @@ [profile |-> profile]
    /\ current_data' = NoSample
    /\ UNCHANGED <<stored_profile, sessions, records, reqs, logs, upd, cross_profiles>>

\* start_biometric_session, lines 244-267: create() gives no session_id, so
\* the row is stored under '' and a second one breaks the unique constraint
StartSession(user) ==
    /\ IF sessions[""].exists
       THEN /\ result' = Response("start_biometric_session", 500, user)
            /\ UNCHANGED sessions
       ELSE /\ sessions' = [sessions EXCEPT ![""] = FreshSession(user)]
            /\ result' = Response("start_biometric_session", 201, user) @@ [session_id |-> ""]
    /\ current_data' = NoSample
    /\ UNCHANGED <<stored_profile, profiles, records, reqs, logs, upd, cross_profiles>>

\* end_biometric_session, lines 269-294
EndSession(user, session_id) ==
    /\ LET row == sessions[session_id]
       IN  IF row.exists /\ row.user = user
           THEN /\ sessions' = [sessions EXCEPT ![session_id].is_active = FALSE]
                /\ result' = Response("end_biometric_session", 200, user)
           ELSE /\ result' = Response("end_biometric_session", 404, user)
                /\ UNCHANGED sessions
    /\ current_data' = NoSample
    /\ UNCHANGED <<stored_profile, profiles, records, reqs, logs, upd, cross_profiles>>

\* the profiles at the start: none, or a profile of u1 that already
\* trusts d1
InitProfiles ==
    {[u \in Users |-> NoProfile],
     [u \in Users |-> IF u = "u1" THEN [FreshProfile EXCEPT !.trusted_devices = {"d1"}]
                      ELSE NoProfile]}

InitStoreApi ==
    /\ stored_profile = [table |-> "none"]
    /\ current_data = NoSample
    /\ result = NoResult
    /\ profiles \in InitProfiles
    /\ sessions = [sid \in StoredSessionIds |->
                      IF sid = "s2" THEN FreshSession("u2") ELSE NoSession]
    /\ records = [u \in Users |-> 0]
    /\ cross_profiles = [u \in Users |-> NoCrossProfile]
    /\ reqs = <<>>
    /\ logs = <<>>
    /\ upd = [times |-> 0, original |-> UpdaterProfile, batch |-> UpdaterBatch,
              profile |-> UpdaterProfile, once |-> UpdaterProfile]

\* the requests are the caller's; the other user owns session s2
NextStore ==
    \/ \E sid \in SessionIds, sample \in StoreMobileSamples : StoreCollect(Caller, sid, sample)
    \/ \E sid \in SessionIds, web_data \in StoreWebSamples :
          StoreWebCollect(Caller, sid, web_data)
    \/ \E sample \in StoreVerifySamples : StoreVerify(Caller, sample)
    \/ \E sample \in StoreMobileSamples : StoreCrossVerify(Caller, "mobile", sample)
    \/ \E web_data \in StoreWebSamples : StoreCrossVerify(Caller, "web", web_data)
    \/ \E web_data \in StoreWebSamples : StoreCrossVerify(Caller, "desktop", web_data)
    \/ ProfileRead(Caller)
    \/ StartSession(Caller)
    \/ \E sid \in SessionIds : EndSession(Caller, sid)
    \/ ApplyUpdate

SpecStore == InitStoreApi /\ [][NextStore]_vars

-----------------------------------------------------------------------------
(* Signatures.  A mapping is given as its items in insertion order; a      *)
(* digest is a string: '' or the hex digest of a serialised text.          *)

\* the items of a mapping whose keys were inserted in the given order
Items(mapping, order) ==
    [i \in 1..Len(order) |-> [key |-> order[i], value |-> mapping[order[i]]]]

\* mapping.get(key, default)
Get(items, key, default) ==
    LET hits == {i \in 1..Len(items) : items[i].key = key}
    IN  IF hits = {} THEN default ELSE items[CHOOSE i \in hits : TRUE].value

\* the keys of the two signature mappings, sorted
SortedKeys ==
    <<"browser_fingerprint", "device_id", "mouse_patterns", "scroll_patterns",
      "touch_patterns", "typing_rhythm">>

\* json.dumps(signature_data, sort_keys=True): the items by sorted key
\* (the feature maps inside are functions, which have no order)
Dumps(items) ==
    LET keys == SelectSeq(SortedKeys, LAMBDA k : \E i \in 1..Len(items) : items[i].key = k)
    IN  [i \in 1..Len(keys) |-> [key |-> keys[i], value |-> Get(items, keys[i], Empty)]]

\* hashlib.sha256(text.encode()).hexdigest(): a non-empty string that is
\* the same for the same text (collisions are left out)
Sha256(text) == <<"sha256", text>>

\* the empty string
NoDigest == <<>>

\* variant: an exception inside an extractor empties the digest
CreateBiometricSignature_failclosed(biometric_data) ==
    IF biometric_data.kind # "dict" THEN NoDigest
    ELSE LET typing == Get(biometric_data.items, "typing_pattern", Absent)
             touch == Get(biometric_data.items, "touch_patterns", Absent)
             device == Get(biometric_data.items, "device_characteristics", Absent)
         IN  IF device.kind = "str" \/ ExtractTyping(typing).exc \/ ExtractTouch(touch).exc
             THEN NoDigest
             ELSE Sha256(Dumps(<<
                    [key |-> "typing_rhythm", value |-> _extract_typing_features(typing)],
                    [key |-> "touch_patterns", value |-> _extract_touch_features(touch)],
                    [key |-> "device_id",
                     value |-> IF device.kind = "dict" THEN device.device_id ELSE ""]>>))

\* create_biometric_signature, lines 19-41: .get on a sample or on a
\* device_characteristics that is no mapping raises, and the except answers ''
create_biometric_signature(biometric_data) ==
    IF biometric_data.kind # "dict" THEN NoDigest
    ELSE LET typing == Get(biometric_data.items, "typing_pattern", Absent)
             touch == Get(biometric_data.items, "touch_patterns", Absent)
             device == Get(biometric_data.items, "device_characteristics", Absent)
         IN  IF device.kind = "str" THEN NoDigest
             ELSE Sha256(Dumps(<<
                    [key |-> "typing_rhythm", value |-> _extract_typing_features(typing)],
                    [key |-> "touch_patterns", value |-> _extract_touch_features(touch)],
                    [key |-> "device_id",
                     value |-> IF device.kind = "dict" THEN device.device_id ELSE ""]>>))

\* a scroll event that carries a direction
ScrollTo(speed, direction) == [k |-> "dict", speed |-> speed, direction |-> direction]

\* [event.get('direction', '') for event in scroll_events
\*  if event.get('direction')], line 140
Directions(scroll_events) ==
    LET RECURSIVE Pick(_)
        Pick(i) ==
            IF i > Len(scroll_events) THEN <<>>
            ELSE (IF "direction" \in DOMAIN scroll_events[i] /\ scroll_events[i].direction # ""
                  THEN <<scroll_events[i].direction>> ELSE <<>>) \o Pick(i + 1)
    IN  Pick(1)

\* directions.count(d)
Count(directions, d) == Cardinality({i \in 1..Len(directions) : directions[i] = d})

\* the values max(set(directions), key=directions.count) can return, line
\* 142: the first most frequent direction in the iteration order of a set
\* of strings, which the hash seed of the process decides; none when the
\* speed part raised or no event has a direction
PreferredDirections(scroll_events) ==
    IF scroll_events = <<>> \/ ~AllMappings(scroll_events) THEN {}
    ELSE LET speeds == Column(scroll_events, "speed")
             directions == Directions(scroll_events)
             seen == {directions[i] : i \in 1..Len(directions)}
         IN  IF speeds # <<>> /\ ~AllNum(speeds) THEN {}
             ELSE {d \in seen : \A e \in seen : Count(directions, d) >= Count(directions, e)}

\* _extract_scroll_features, lines 126-147, in a process whose sets of
\* strings iterate in set_order: max returns the first most frequent one
ScrollFeatures(scroll_events, set_order) ==
    LET preferred == PreferredDirections(scroll_events)
        hits == {i \in 1..Len(set_order) : set_order[i] \in preferred}
        first == CHOOSE i \in hits : \A j \in hits : i <= j
    IN  _extract_scroll_features(scroll_events)
        @@ (IF preferred # {}
            THEN [key \in {"preferred_direction"} |-> [direction |-> set_order[first]]]
            ELSE Empty)

\* create_web_behavioral_signature, lines 18-35, in such a process
create_web_behavioral_signature(web_data, set_order) ==
    IF web_data.kind # "dict" THEN NoDigest
    ELSE Sha256(Dumps(<<
           [key |-> "mouse_patterns",
            value |-> _extract_mouse_features(Get(web_data.items, "mouse_movements", <<>>))],
           [key |-> "scroll_patterns",
            value |-> ScrollFeatures(Get(web_data.items, "scroll_events", <<>>), set_order)],
           [key |-> "typing_rhythm",
            value |-> _extract_web_typing_features(
                          Get(web_data.items, "keystroke_timing", <<>>))],
           [key |-> "browser_fingerprint",
            value |-> _create_browser_fingerprint(
                          Get(web_data.items, "browser_info", Absent))]>>))

\* a sample as a mapping whose keys were inserted in the given order
Mapping(sample, order) ==
    IF sample.kind # "dict" THEN sample
    ELSE [kind |-> "dict", items |-> Items(sample, order)]

KeyOrders(keys) ==
    {order \in [1..Cardinality(keys) -> keys] :
        \A i, j \in 1..Cardinality(keys) : i # j => order[i] # order[j]}

\* the orders in which the collection views insert the keys (views.py 49-66
\* and 330-338), and every other order
MobileViewOrder == <<"typing_pattern", "touch_patterns", "device_characteristics">>
MobileKeyOrders == KeyOrders({"typing_pattern", "touch_patterns", "device_characteristics"})
WebViewOrder == <<"mouse_movements", "scroll_events", "keystroke_timing", "browser_info">>
WebKeyOrders ==
    KeyOrders({"mouse_movements", "scroll_events", "keystroke_timing", "browser_info"})

SignedScrollLists ==
    {<<>>, <<Scroll(Str)>>}
    \cup {scroll \in SeqUpTo({ScrollTo(Num(5), "up"), ScrollTo(Num(5), "down")}, MaxLen) :
             scroll # <<>>}

SignedWebSamples ==
    {NonMapping}
    \cup {[kind |-> "dict", mouse_movements |-> m, keystroke_timing |-> k,
           scroll_events |-> sc, browser_info |-> b] :
             m \in {<<Move(Num(10))>>, <<NotMapping>>}, k \in KeystrokeLists,
             sc \in SignedScrollLists, b \in {NonMapping, Browser({})}}

\* the iteration orders of {'up', 'down'} that the hash seed of a server
\* process can give
SetOrders == {<<"up", "down">>, <<"down", "up">>}

InitSig ==
    /\ stored_profile = [table |-> "none"]
    /\ current_data = NoSample
    /\ result = NoResult
    /\ InitStore
    /\ reqs = <<>>
    /\ logs = <<>>
    /\ upd = NoUpdate

\* the same sample signed twice by create_biometric_signature, its keys
\* inserted in two orders
SignMobile ==
    /\ result = NoResult
    /\ \E sample \in MobileSamples, order \in MobileKeyOrders :
          /\ current_data' = sample
          /\ result' = [view |-> "create_biometric_signature",
                        first |-> create_biometric_signature(
                                      Mapping(sample, MobileViewOrder)),
                        second |-> create_biometric_signature(Mapping(sample, order))]
    /\ UNCHANGED <<stored_profile, profiles, sessions, records, reqs, logs, upd,
                   cross_profiles>>

\* the same sample signed by create_web_behavioral_signature in two processes
SignWeb ==
    /\ result = NoResult
    /\ \E web_data \in SignedWebSamples, order \in WebKeyOrders,
          f1 \in SetOrders, f2 \in SetOrders :
          /\ current_data' = web_data
          /\ result' = [view |-> "create_web_behavioral_signature",
                        first |-> create_web_behavioral_signature(
                                      Mapping(web_data, WebViewOrder), f1),
                        second |-> create_web_behavioral_signature(
                                       Mapping(web_data, order), f2)]
    /\ UNCHANGED <<stored_profile, profiles, sessions, records, reqs, logs, upd,
                   cross_profiles>>

NextSig == SignMobile \/ SignWeb

SpecSig == InitSig /\ [][NextSig]_vars

-----------------------------------------------------------------------------
(* One mobile verification call, statement by statement.  reqs holds the   *)
(* call's frame: pc (the statement reached) and the locals of              *)
(* verify_behavioral_match and of the view.                                *)

NoMatch == [kind |-> "none"]
NoVerdict == [status |-> "none"]

CallFrame ==
    [pc |-> "received", current_features |-> Empty, confidence_factors |-> <<>>,
     anomalies |-> <<>>, raised |-> FALSE, match |-> NoMatch, res |-> NoVerdict]

CallTypingChannels ==
    {Absent, NonMapping}
    \cup {[kind |-> "dict", key_hold_times |-> h, flight_times |-> f] :
             h \in {<<Num(175)>>, <<Num(240)>>, <<Str>>}, f \in FlightLists}

CallDeviceChannels ==
    {Absent, NonMapping}
    \cup {[kind |-> "dict", device_id |-> d, os |-> "ios"] : d \in {"d1", "d2"}}

CallSamples ==
    {NonMapping}
    \cup {[kind |-> "dict", typing_pattern |-> t, touch_patterns |-> c,
           device_characteristics |-> d] :
             t \in CallTypingChannels, c \in TouchChannels, d \in CallDeviceChannels}

\* the profile the call has read: a BiometricProfile row or the
\* mobile_profile of a CrossPlatformProfile row
CallSnapshots ==
    {[table |-> "BiometricProfile", data |-> m] :
        m \in {DefaultMobileProfile,
               MobileProfile(150, [c \in {"a"} |-> 150], 10, 4, {"d1"}, "")}}
    \cup {[table |-> "CrossPlatformProfile",
           data |-> [mobile_profile |-> m, web_profile |-> EmptyWebProfile]] :
             m \in {MobileProfile(150, [c \in {"a"} |-> 150], 10, 4, {"d1"}, "ios"),
                    MobileProfile(100, [c \in {"a"} |-> 150], 0, 0, {}, "ios")}}

\* DictField lets only mappings through to BiometricVerificationView;
\* request.data.get('biometric_sample') lets anything through
InitCall ==
    /\ stored_profile \in CallSnapshots
    /\ current_data \in CallSamples
    /\ stored_profile.table = "BiometricProfile" => current_data.kind = "dict"
    /\ result = NoResult
    /\ InitStore
    /\ reqs = <<CallFrame>>
    /\ logs = <<>>
    /\ upd = NoUpdate

CallProfile ==
    IF stored_profile.table = "BiometricProfile"
    THEN stored_profile.data ELSE stored_profile.data.mobile_profile

CallStep(frame) ==
    /\ reqs' = <<frame>>
    /\ UNCHANGED <<stored_profile, current_data, result, profiles, sessions, records,
                   logs, upd, cross_profiles>>

TypingApplies ==
    /\ Present(current_data.typing_pattern)
    /\ CallProfile.typical_hold_times # Empty

TouchApplies ==
    /\ Present(current_data.touch_patterns)
    /\ Truthy(CallProfile.avg_swipe_speed)

\* variant: the except clause starts the call again
CallRaise_retry ==
    /\ reqs[1].pc = "received"
    /\ ~reqs[1].raised
    /\ current_data.kind # "dict"
    /\ CallStep([reqs[1] EXCEPT !.raised = TRUE])

\* behavioral_analyzer.py lines 53 and 94-96: current_data.get raises on a
\* sample that is no mapping; the except clause returns (False, 0.0, 1.0)
CallRaise ==
    /\ reqs[1].pc = "received"
    /\ current_data.kind # "dict"
    /\ CallStep([reqs[1] EXCEPT !.pc = "returned", !.raised = TRUE,
                                !.match = [is_match |-> FALSE, confidence |-> 0,
                                           risk |-> One]])

\* lines 53-54 with 152: _verify_typing_pattern is entered and extracts
CallExtractTyping ==
    /\ reqs[1].pc = "received"
    /\ current_data.kind = "dict"
    /\ TypingApplies
    /\ CallStep([reqs[1] EXCEPT !.pc = "typing_extracted",
                   !.current_features = _extract_typing_features(current_data.typing_pattern)])

\* lines 54-58 with 153-171: the typing score, weighted
CallMatchTyping ==
    /\ reqs[1].pc = "typing_extracted"
    /\ CallStep([reqs[1] EXCEPT !.pc = "typing_done",
                   !.confidence_factors =
                       Append(@, Weighted(_verify_typing_pattern(current_data.typing_pattern,
                                                                 CallProfile), 50))])

\* line 53: the condition is false
CallSkipTyping ==
    /\ reqs[1].pc = "received"
    /\ current_data.kind = "dict"
    /\ ~TypingApplies
    /\ CallStep([reqs[1] EXCEPT !.pc = "typing_done"])

\* lines 61-62 with 176: _verify_touch_patterns is entered and extracts
CallExtractTouch ==
    /\ reqs[1].pc = "typing_done"
    /\ TouchApplies
    /\ CallStep([reqs[1] EXCEPT !.pc = "touch_extracted",
                   !.current_features = _extract_touch_features(current_data.touch_patterns)])

\* lines 62-66 with 177-201: the touch score, weighted
CallMatchTouch ==
    /\ reqs[1].pc = "touch_extracted"
    /\ CallStep([reqs[1] EXCEPT !.pc = "touch_done",
                   !.confidence_factors =
                       Append(@, Weighted(_verify_touch_patterns(current_data.touch_patterns,
                                                                 CallProfile), 30))])

\* line 61: the condition is false
CallSkipTouch ==
    /\ reqs[1].pc = "typing_done"
    /\ ~TouchApplies
    /\ CallStep([reqs[1] EXCEPT !.pc = "touch_done"])

\* lines 69-74: the device score, weighted, when the sample names a device
CallMatchDevice ==
    /\ reqs[1].pc = "touch_done"
    /\ CallStep([reqs[1] EXCEPT !.pc = "device_done",
                   !.confidence_factors =
                       IF Present(current_data.device_characteristics)
                       THEN Append(@, Weighted(_verify_device(
                                        current_data.device_characteristics, CallProfile), 20))
                       ELSE @])

\* line 86 with 233: _detect_anomalies, which extracts the typing features once more
CallDetectAnomalies ==
    /\ reqs[1].pc = "device_done"
    /\ CallStep([reqs[1] EXCEPT !.pc = "anomaly_checked",
                   !.current_features = _extract_typing_features(current_data.typing_pattern),
                   !.anomalies = _detect_anomalies(current_data, CallProfile)])

\* lines 76-92: confidence, risk and is_match are returned
CallReturn ==
    /\ reqs[1].pc = "anomaly_checked"
    /\ LET overall_confidence == OverallConfidence(reqs[1].confidence_factors)
       IN  CallStep([reqs[1] EXCEPT !.pc = "returned",
                       !.match = [is_match |-> overall_confidence >= Pct(70),
                                  confidence |-> overall_confidence,
                                  risk |-> MobileRisk(overall_confidence, reqs[1].anomalies)]])

\* views.py lines 166-175 (BiometricVerificationView) and 508-528
\* (_prepare_verification_result): the status
CallDecide ==
    /\ reqs[1].pc = "returned"
    /\ LET m == reqs[1].match
       IN  CallStep([reqs[1] EXCEPT !.pc = "decided",
                       !.res = IF stored_profile.table = "BiometricProfile"
                               THEN VerificationResult(m.is_match, m.confidence, m.risk)
                               ELSE _prepare_verification_result(m.is_match, m.confidence,
                                                                 m.risk)])

\* views.py lines 178-188 and 462-472: the log row
CallLog ==
    /\ reqs[1].pc = "decided"
    /\ logs' = Append(logs, LogEntry(Caller, reqs[1].res))
    /\ reqs' = <<[reqs[1] EXCEPT !.pc = "logged"]>>
    /\ UNCHANGED <<stored_profile, current_data, result, profiles, sessions, records,
                   upd, cross_profiles>>

\* views.py lines 201-205 and 474-479: the response
CallRespond ==
    /\ reqs[1].pc = "logged"
    /\ result' = [view |-> IF stored_profile.table = "BiometricProfile"
                           THEN "BiometricVerificationView"
                           ELSE "CrossPlatformVerificationView",
                  platform |-> "mobile", match |-> reqs[1].match, res |-> reqs[1].res,
                  verification_id |-> Len(logs)]
    /\ reqs' = <<[reqs[1] EXCEPT !.pc = "responded"]>>
    /\ UNCHANGED <<stored_profile, current_data, profiles, sessions, records, logs,
                   upd, cross_profiles>>

NextCall ==
    \/ CallRaise
    \/ CallExtractTyping
    \/ CallMatchTyping
    \/ CallSkipTyping
    \/ CallExtractTouch
    \/ CallMatchTouch
    \/ CallSkipTouch
    \/ CallMatchDevice
    \/ CallDetectAnomalies
    \/ CallReturn
    \/ CallDecide
    \/ CallLog
    \/ CallRespond

\* the handler is straight-line synchronous code: a statement that can run
\* does run
SpecCall == InitCall /\ [][NextCall]_vars /\ WF_vars(NextCall)

-----------------------------------------------------------------------------
(* Properties *)

\* a verification call has returned
Called == result # NoResult

MobileCall == Called /\ result.platform = "mobile"
WebCall == Called /\ result.platform = "web"

\* the mobile profile the call compared against
MobileProfileRead ==
    IF stored_profile.table = "BiometricProfile"
    THEN stored_profile.data ELSE stored_profile.data.mobile_profile

Clamp(x) == Max(0, Min(One, x))

FailClosed ==
    /\ result.match = [is_match |-> FALSE, confidence |-> 0, risk |-> One]
    /\ result.res.confidence_score = 0
    /\ result.res.risk_score = One
    /\ result.res.status = "failed"

\* extraction failed on the typing channel before a mean hold time was computed
HoldMalformed(typing_pattern) ==
    /\ Present(typing_pattern)
    /\ ExtractTyping(typing_pattern).exc
    /\ "avg_hold_time" \notin DOMAIN ExtractTyping(typing_pattern).f

\* extraction failed on the flight times, after the hold times were summarised
FlightMalformed(typing_pattern) ==
    /\ Present(typing_pattern)
    /\ ExtractTyping(typing_pattern).exc
    /\ "avg_hold_time" \in DOMAIN ExtractTyping(typing_pattern).f

\* an extractor the call ran hit its except clause
ExtractionRaised ==
    /\ current_data.kind = "dict"
    /\ \/ ExtractTyping(current_data.typing_pattern).exc
       \/ /\ Present(current_data.touch_patterns)
          /\ Truthy(MobileProfileRead.avg_swipe_speed)
          /\ ExtractTouch(current_data.touch_patterns).exc

\* the weighted touch and device scores of the sample
TouchAndDevice(sample, profile) ==
    (IF Present(sample.touch_patterns) /\ Truthy(profile.avg_swipe_speed)
     THEN Weighted(_verify_touch_patterns(sample.touch_patterns, profile), 30) ELSE 0)
    + (IF Present(sample.device_characteristics)
       THEN Weighted(_verify_device(sample.device_characteristics, profile), 20) ELSE 0)

\* C1 as stated: an extraction exception on a malformed channel makes the call
\* fail closed (confidence 0, risk 1, status failed), whatever the other channels hold
C1_ExtractionErrorFailsClosed ==
    (MobileCall /\ ExtractionRaised) => FailClosed

\* C1 amended: an extraction exception is caught inside the extractor and the call
\* goes on with the statistics computed before it: malformed hold times make the
\* typing channel contribute 0 and the confidence is the weighted touch and device
\* scores; malformed flight times leave the result what it is without them; the
\* fail-closed result is returned when the sample itself is no mapping
C1_ExtractionErrorIsLocal ==
    MobileCall =>
        /\ current_data.kind # "dict" => FailClosed
        /\ (current_data.kind = "dict" /\ HoldMalformed(current_data.typing_pattern)) =>
              result.match.confidence = TouchAndDevice(current_data, MobileProfileRead)
        /\ (current_data.kind = "dict" /\ FlightMalformed(current_data.typing_pattern)) =>
              result.match =
                 verify_behavioral_match(
                    [current_data EXCEPT !.typing_pattern.flight_times = <<>>],
                    MobileProfileRead)

\* a call with malformed hold times that is not failed: it asks for a challenge
C1_Witness ==
    /\ MobileCall
    /\ current_data.kind = "dict"
    /\ HoldMalformed(current_data.typing_pattern)
    /\ result.res.status = "suspicious"
    /\ result.res.confidence_score = Pct(50)

\* C2: both matchers return a confidence in [0,1] and a risk in [0,1], for every
\* sample and profile, malformed and missing channels included
C2_Bounds ==
    Called =>
        /\ result.match.confidence \in 0..One
        /\ result.match.risk \in 0..One
        /\ result.res.confidence_score \in 0..One
        /\ result.res.risk_score \in 0..One

\* a call where the cap on the risk acted: some confidence, and the anomalies
\* would carry the risk past 1
C2_Witness ==
    /\ Called
    /\ current_data.kind = "dict"
    /\ result.match.confidence > 0
    /\ result.match.risk = One

\* C3: the mobile decision: success iff is_match and confidence >= 0.70, suspicious
\* iff not success and confidence >= 0.50, failed otherwise; is_verified iff success;
\* requires_challenge and challenge_type = otp iff suspicious
C3_DecisionMapping ==
    MobileCall =>
        LET m == result.match
            r == result.res
            success == m.is_match /\ m.confidence >= Pct(70)
            suspicious == ~success /\ m.confidence >= Pct(50)
        IN  /\ r.status \in {"success", "suspicious", "failed"}
            /\ r.status = "success" <=> success
            /\ r.status = "suspicious" <=> suspicious
            /\ r.status = "failed" <=> (~success /\ ~suspicious)
            /\ r.is_verified <=> r.status = "success"
            /\ r.requires_challenge <=> r.status = "suspicious"
            /\ r.challenge_type = "otp" <=> r.status = "suspicious"

\* a mobile call decided suspicious at the lower edge of the band
C3_Witness ==
    /\ MobileCall
    /\ result.view = "BiometricVerificationView"
    /\ result.match.confidence = Pct(50)
    /\ result.res.status = "suspicious"
    /\ result.res.challenge_type = "otp"

\* C4 as stated: on platform web a match with confidence >= 0.65 is a success
C4_WebMatchIsSuccess ==
    (WebCall /\ result.match.is_match /\ result.match.confidence >= Pct(65)) =>
        /\ result.res.status = "success"
        /\ result.res.is_verified
        /\ ~result.res.requires_challenge

\* every data-collection request has answered
AllAnswered == \A r \in DOMAIN reqs : reqs[r].pc \in {"done", "error"}

\* the requests that answered 201
Collected == {r \in DOMAIN reqs : reqs[r].pc = "done"}

\* C5 as stated: no update is lost: once N collection requests have completed, the
\* user's samples_collected has grown by N and each session's data_points_collected
\* by the number of those requests that named it, under every interleaving
C5_NoLostUpdate ==
    (reqs # <<>> /\ AllAnswered) =>
        /\ \A u \in Users :
              profiles[u].samples_collected
                 = Cardinality({r \in Collected : reqs[r].user = u})
        /\ \A sid \in SessionIds :
              sessions[sid].data_points_collected
                 = Cardinality({r \in Collected : reqs[r].session_id = sid})

\* the anomaly tags of the call's sample and profile, and the penalty per tag
TagsOfCall ==
    IF result.platform = "mobile"
    THEN _detect_anomalies(current_data, MobileProfileRead)
    ELSE _detect_web_anomalies(current_data, stored_profile.data.web_profile)

PenaltyOfCall == IF result.platform = "mobile" THEN Pct(20) ELSE Pct(15)

\* C6: risk = clamp(1 - confidence + p * |anomalies|, 0, 1), p = 0.2 for the mobile
\* matcher and 0.15 for the web matcher
C6_RiskFormula ==
    Called =>
        result.match.risk
           = Clamp(One - result.match.confidence + PenaltyOfCall * Len(TagsOfCall))

\* a mobile call with one anomaly whose risk stays under the cap
C6_Witness ==
    /\ MobileCall
    /\ Len(TagsOfCall) = 1
    /\ result.match.confidence > 0
    /\ result.match.risk < One

\* the typing channel score the claim gives for a baseline and a mean hold time
TypingScoreByBaseline(baseline, current_avg) ==
    IF RelDiffLE(baseline, current_avg, 20) THEN Pct(70)
    ELSE IF RelDiffLE(baseline, current_avg, 40) THEN Pct(30)
    ELSE 0

\* the sample carries the typing channel alone
TypingOnly(sample) ==
    /\ sample.kind = "dict"
    /\ Present(sample.typing_pattern)
    /\ ~Present(sample.touch_patterns)
    /\ ~Present(sample.device_characteristics)

\* C7 as stated: the typing score is 0.7 / 0.3 / 0 by the relative difference between
\* the sample's mean hold time and the profile's stored baseline (the value the
\* matcher compares with, avg_typing_speed); a typing-only sample then has
\* confidence score * 0.5: baseline 150 and mean 175 give 0.7 and 0.35
C7_TypingScoreByBaseline ==
    (MobileCall /\ current_data.kind = "dict"
       /\ IsNumber(MobileProfileRead.avg_typing_speed)
       /\ "avg_hold_time" \in DOMAIN _extract_typing_features(current_data.typing_pattern)) =>
        LET expected ==
                TypingScoreByBaseline(
                    MobileProfileRead.avg_typing_speed,
                    _extract_typing_features(current_data.typing_pattern)["avg_hold_time"])
        IN  /\ _verify_typing_pattern(current_data.typing_pattern, MobileProfileRead) = expected
            /\ TypingOnly(current_data) =>
                  result.match.confidence = Weighted(expected, 50)

\* C8: for a typing-only sample the confidence is the typing score times 0.5
C8_TypingOnlyConfidence ==
    (MobileCall /\ TypingOnly(current_data)) =>
        result.match.confidence
           = Weighted(_verify_typing_pattern(current_data.typing_pattern, MobileProfileRead), 50)

\* a typing-only sample within 20 % of the baseline: confidence 0.35
C8_Witness ==
    /\ MobileCall
    /\ TypingOnly(current_data)
    /\ result.match.confidence = Pct(35)

\* the sample carries the device channel alone
DeviceOnly(sample) ==
    /\ sample.kind = "dict"
    /\ ~Present(sample.typing_pattern)
    /\ ~Present(sample.touch_patterns)
    /\ Present(sample.device_characteristics)

\* the device score the claim gives (an empty device id or OS is no id / no OS)
DeviceScoreByClaim(device, profile) ==
    IF device.kind = "dict" /\ device.device_id # ""
       /\ device.device_id \in profile.trusted_devices
    THEN One
    ELSE IF device.kind = "dict" /\ device.os # "" /\ device.os = profile.typical_os
    THEN Pct(50)
    ELSE 0

\* C9: the device score is 1.0 for a device id in trusted_devices, 0.5 when it is not
\* but the sample's OS is the profile's typical OS, 0 in every other case
C9_DeviceScore ==
    (MobileCall /\ current_data.kind = "dict") =>
        LET expected == DeviceScoreByClaim(current_data.device_characteristics,
                                           MobileProfileRead)
        IN  /\ _verify_device(current_data.device_characteristics, MobileProfileRead)
                  = expected
            /\ DeviceOnly(current_data) =>
                  result.match.confidence = Weighted(expected, 20)

\* a device-only sample from an untrusted device with the typical OS: 0.5 * 0.2
C9_Witness ==
    /\ MobileCall
    /\ DeviceOnly(current_data)
    /\ current_data.device_characteristics.kind = "dict"
    /\ current_data.device_characteristics.device_id \notin MobileProfileRead.trusted_devices
    /\ result.match.confidence = Pct(10)

\* the elements of a list of tags
TagSet(tags) == {tags[i] : i \in 1..Len(tags)}

\* the sample yields a mean hold time that differs from the baseline by more than 50 %
TypingFarFromBaseline(sample, profile) ==
    /\ "avg_hold_time" \in DOMAIN _extract_typing_features(sample.typing_pattern)
    /\ IsNumber(profile.avg_typing_speed)
    /\ RelDiffGT(profile.avg_typing_speed,
                 _extract_typing_features(sample.typing_pattern)["avg_hold_time"], 50)

\* the sample carries a device id that is not trusted
UnfamiliarDevice(sample, profile) ==
    /\ sample.device_characteristics.kind = "dict"
    /\ sample.device_characteristics.device_id # ""
    /\ sample.device_characteristics.device_id \notin profile.trusted_devices

\* C10 as stated: typing_speed_anomaly exactly when the relative difference between
\* the mean hold time and the baseline exceeds 0.5, unfamiliar_device exactly when the
\* sample's device id is not trusted, and no other tag
C10_AnomalyTags ==
    (MobileCall /\ current_data.kind = "dict") =>
        LET tags == TagSet(_detect_anomalies(current_data, MobileProfileRead))
        IN  /\ "typing_speed_anomaly" \in tags
                  <=> TypingFarFromBaseline(current_data, MobileProfileRead)
            /\ "unfamiliar_device" \in tags
                  <=> UnfamiliarDevice(current_data, MobileProfileRead)
            /\ tags \subseteq {"typing_speed_anomaly", "unfamiliar_device"}

\* the typing rule of the mobile detector applies and its condition holds
TypingRuleHolds(sample, profile) ==
    /\ Truthy(profile.avg_typing_speed)
    /\ TypingFarFromBaseline(sample, profile)

\* the web rules: a mouse speed deviation under 0.1, a fingerprint match under 0.3
RoboticMouse(sample) ==
    LET mouse_features == _extract_mouse_features(sample.mouse_movements)
    IN  /\ "mouse_speed_std" \in DOMAIN mouse_features
        /\ 100 * mouse_features["mouse_speed_std"].num < mouse_features["mouse_speed_std"].den

FingerprintMismatch(sample, profile) ==
    _verify_browser_fingerprint(sample.browser_info, profile.browser_fingerprint) < Pct(30)

\* C11 as stated: a rule whose condition holds for the sample and profile has its
\* tag in the returned list, whatever happened while the other rules were evaluated
\* (fired, did not fire, inapplicable, raised), for the mobile and the web detector
C11_NoShortCircuit ==
    /\ (MobileCall /\ current_data.kind = "dict") =>
          LET tags == TagSet(_detect_anomalies(current_data, MobileProfileRead))
          IN  /\ TypingRuleHolds(current_data, MobileProfileRead)
                    => "typing_speed_anomaly" \in tags
              /\ UnfamiliarDevice(current_data, MobileProfileRead)
                    => "unfamiliar_device" \in tags
    /\ (WebCall /\ current_data.kind = "dict") =>
          LET tags == TagSet(_detect_web_anomalies(current_data,
                                                   stored_profile.data.web_profile))
          IN  /\ RoboticMouse(current_data) => "robotic_mouse_movements" \in tags
              /\ FingerprintMismatch(current_data, stored_profile.data.web_profile)
                    => "browser_fingerprint_mismatch" \in tags

\* the non-empty device ids that the samples of a batch carry
ClaimedDeviceIds(batch) ==
    {batch[i].device_characteristics.device_id :
        i \in {j \in 1..Len(batch) :
                  /\ batch[j].kind = "dict"
                  /\ batch[j].device_characteristics.kind = "dict"}} \ {""}

Counted(profile) == "samples_collected" \in DOMAIN profile

\* C13: update_biometric_profile with a batch returns a profile whose
\* trusted_devices is the union of the old set and the non-empty device ids
\* of the batch and whose samples_collected is the old value plus the size
\* of the batch; an empty batch returns the profile unchanged.
C13_UnionAndCount ==
    (upd.times >= 1 /\ Counted(upd.original)) =>
        IF upd.batch = <<>> THEN upd.once = upd.original
        ELSE /\ upd.once.trusted_devices =
                    upd.original.trusted_devices \cup ClaimedDeviceIds(upd.batch)
             /\ Counted(upd.once)
             /\ upd.once.samples_collected =
                    upd.original.samples_collected + Len(upd.batch)

\* C14: applying update_biometric_profile twice with the same batch leaves
\* trusted_devices equal to what one application gives, and samples_collected
\* ends at the original value plus twice the size of the batch.
C14_TwiceSameBatch ==
    (upd.times = 2 /\ Counted(upd.original)) =>
        /\ upd.profile.trusted_devices = upd.once.trusted_devices
        /\ Counted(upd.profile)
        /\ upd.profile.samples_collected =
               upd.original.samples_collected + 2 * Len(upd.batch)

\* C15: across every sequence of operations on a user's profile the stored
\* samples_collected never decreases.
C15_SamplesNeverDecrease ==
    [][\A u \in Users :
          profiles'[u].samples_collected >= profiles[u].samples_collected]_vars

\* C12: after a successful collection through the mobile data-collection
\* path the sample's device id is in the user's trusted_devices and
\* samples_collected has grown by one.
C12_CollectionAppliesUpdater ==
    [][(/\ result'.view = "BiometricDataCollectionView"
        /\ result'.http = 201
        /\ records' # records)
       => LET user == result'.user
              device_id == current_data'.device_characteristics.device_id
          IN  /\ device_id \in profiles'[user].trusted_devices
              /\ profiles'[user].samples_collected = profiles[user].samples_collected + 1]_vars

\* the trusted devices of every stored profile and of the updater's mapping
TrustedSets ==
    [u \in Users |->
        <<profiles[u].trusted_devices,
          IF cross_profiles[u].exists
          THEN cross_profiles[u].mobile_profile.trusted_devices ELSE {}>>]

\* C16: a device id once in a profile's trusted_devices stays in it; the set
\* gains members only in a step of update_biometric_profile; a step that
\* writes a verification log or a session leaves every set as it was.
C16_TrustedDevicesOnlyGrow ==
    [][/\ \A u \in Users : profiles[u].trusted_devices \subseteq profiles'[u].trusted_devices
       /\ \A u \in Users :
              (cross_profiles[u].exists /\ cross_profiles'[u].exists) =>
                  cross_profiles[u].mobile_profile.trusted_devices
                      \subseteq cross_profiles'[u].mobile_profile.trusted_devices
       /\ upd.profile.trusted_devices \subseteq upd'.profile.trusted_devices
       /\ TrustedSets' = TrustedSets
       /\ (upd'.profile.trusted_devices # upd.profile.trusted_devices)
              => upd'.times = upd.times + 1
       /\ (logs' # logs \/ sessions' # sessions)
              => upd'.profile.trusted_devices = upd.profile.trusted_devices]_vars

\* C16 witness: the updater has added d2 beside d1, and a verification of a
\* sample from d2 has left u1's stored profile trusting d1 alone
C16_Witness ==
    /\ upd.times >= 1
    /\ upd.profile.trusted_devices = {"d1", "d2"}
    /\ profiles["u1"].trusted_devices = {"d1"}
    /\ result.view = "BiometricVerificationView"
    /\ result.http = 200
    /\ current_data.device_characteristics.device_id = "d2"

IsVerification(response) ==
    response.view \in {"BiometricVerificationView", "CrossPlatformVerificationView"}

\* the step is a verification call: every other handler leaves its own
\* response, and the updater changes its mapping
VerificationStep == IsVerification(result') /\ upd' = upd

\* C17: a verification call changes neither the stored profiles nor any
\* session, so a verification of the same sample right after another
\* returns the same confidence, risk and status.
C17_VerificationIsPure ==
    [][VerificationStep =>
          /\ profiles' = profiles
          /\ cross_profiles' = cross_profiles
          /\ sessions' = sessions
          /\ (/\ IsVerification(result)
              /\ result.view = result'.view
              /\ result.http = 200
              /\ result'.http = 200
              /\ current_data' = current_data)
             => /\ result'.res.confidence_score = result.res.confidence_score
                /\ result'.res.risk_score = result.res.risk_score
                /\ result'.res.status = result.res.status]_vars

\* C17 witness: two verifications of a sample from a device the profile does
\* not trust, with the same outcome, and the profile still not trusting it
C17_Witness ==
    /\ result.view = "BiometricVerificationView"
    /\ result.http = 200
    /\ Len(logs) = 2
    /\ logs[1] = logs[2]
    /\ profiles["u1"].exists
    /\ current_data.device_characteristics.device_id \notin profiles["u1"].trusted_devices

\* C18: every verification call that returns a result appends exactly one
\* log entry whose status, confidence and risk are the result's, and no
\* step changes or removes an entry that exists.
C18_AuditLog ==
    [][/\ Len(logs') >= Len(logs)
       /\ \A i \in 1..Len(logs) : logs'[i] = logs[i]
       /\ (VerificationStep /\ result'.http = 200) =>
              /\ Len(logs') = Len(logs) + 1
              /\ result'.verification_id = Len(logs')
              /\ logs'[Len(logs')].status = result'.res.status
              /\ logs'[Len(logs')].confidence_score = result'.res.confidence_score
              /\ logs'[Len(logs')].risk_score = result'.res.risk_score]_vars

\* C18 witness: a collection request after a verification was logged
C18_Witness ==
    /\ Len(logs) >= 1
    /\ logs[1].confidence_score # logs[1].risk_score
    /\ result.view = "BiometricDataCollectionView"
    /\ result.http = 201

Signed == result # NoResult /\ result.view \in {"create_biometric_signature",
                                                 "create_web_behavioral_signature"}

\* C19: signature building is deterministic and order-independent: two
\* builds over the same content yield the same digest, whatever order the
\* keys of the input maps were inserted in, for both builders.
C19_SignatureDeterministic ==
    Signed => result.first = result.second

\* an exception was raised inside an extractor while the sample was signed
SignatureExtractionRaised ==
    /\ current_data.kind = "dict"
    /\ \/ ExtractTyping(current_data.typing_pattern).exc
       \/ ExtractTouch(current_data.touch_patterns).exc

\* building signature_data raised outside the extractors
SignatureDataRaised ==
    \/ current_data.kind # "dict"
    \/ current_data.device_characteristics.kind = "str"

MobileSigned == result # NoResult /\ result.view = "create_biometric_signature"

\* C20 as stated: when feature extraction raises while a signature is built
\* the builder returns the empty string; a non-empty digest is returned only
\* when extraction of every channel succeeded.
C20_ExtractionErrorEmptiesDigest ==
    MobileSigned =>
        /\ SignatureExtractionRaised => result.first = NoDigest
        /\ result.first # NoDigest => ~SignatureExtractionRaised

\* C20 amended: an exception inside an extractor is caught there and does
\* not empty the digest; the digest is empty exactly when the sample or its
\* device_characteristics is no mapping.
C20_ExtractionErrorKeepsDigest ==
    MobileSigned =>
        /\ result.first = NoDigest <=> SignatureDataRaised
        /\ (SignatureExtractionRaised /\ ~SignatureDataRaised) => result.first # NoDigest

\* C20 witness: the typing extractor raised on the flight times and the
\* digest is not empty
C20_Witness ==
    /\ MobileSigned
    /\ current_data.kind = "dict"
    /\ FlightMalformed(current_data.typing_pattern)
    /\ result.first # NoDigest

CrossCalled == result # NoResult /\ result.view = "CrossPlatformVerificationView"

\* C21 as stated: a cross-platform verification against an existing unified
\* profile accepts the platform tags mobile, web and desktop, and in every
\* case answers with a verification result, that of the matcher the tag
\* names run against the sub-profile of the same name.
C21_EveryPlatformVerified ==
    (CrossCalled /\ cross_profiles[result.user].exists
                 /\ result.platform \in {"mobile", "web", "desktop"}) =>
        /\ result.http = 200
        /\ "res" \in DOMAIN result
        /\ result.platform = "mobile" =>
              result.res = _verify_mobile_behavior(current_data, cross_profiles[result.user])
        /\ result.platform = "web" =>
              result.res = _verify_web_behavior(current_data, cross_profiles[result.user])

\* a collection request (mobile or web) that was answered with 201
Ingested(r) ==
    /\ r # NoResult
    /\ r.view \in {"BiometricDataCollectionView", "WebDataCollectionView"}
    /\ r.http = 201

C23_MalformedChannelIsEmpty ==
    (MobileCall /\ current_data.kind = "dict") =>
        /\ (Present(current_data.typing_pattern)
              /\ ExtractTyping(current_data.typing_pattern).exc) =>
              /\ _extract_typing_features(current_data.typing_pattern) = Empty
              /\ result.match.confidence = TouchAndDevice(current_data, MobileProfileRead)
        /\ (Present(current_data.touch_patterns)
              /\ ExtractTouch(current_data.touch_patterns).exc) =>
              _extract_touch_features(current_data.touch_patterns) = Empty

\* the frame of the verification call in flight
Call == reqs[1]
CallNext == reqs'[1]

\* the stage of the per-call state machine a frame is in: 0 received,
\* 1 extracted, 2 matched, 3 anomaly-checked, 4 decided, 5 logged
Stage(frame) ==
    CASE frame.pc = "received" -> 0
      [] frame.pc \in {"typing_extracted", "touch_extracted"} -> 1
      [] frame.pc \in {"typing_done", "touch_done", "device_done"} ->
            IF frame.confidence_factors = <<>> THEN 0 ELSE 2
      [] frame.pc = "anomaly_checked" -> 3
      [] frame.pc \in {"returned", "decided"} -> 4
      [] OTHER -> 5

\* the place of a statement in the code of the call
Order(pc) ==
    CASE pc = "received" -> 0
      [] pc = "typing_extracted" -> 1
      [] pc = "typing_done" -> 2
      [] pc = "touch_extracted" -> 3
      [] pc = "touch_done" -> 4
      [] pc = "device_done" -> 5
      [] pc = "anomaly_checked" -> 6
      [] pc = "returned" -> 7
      [] pc = "decided" -> 8
      [] pc = "logged" -> 9
      [] OTHER -> 10

\* the call has its status, and its log row has the same one
Terminal(frame) ==
    /\ frame.res.status \in {"success", "suspicious", "failed"}
    /\ Len(logs) = 1
    /\ logs[1].status = frame.res.status

\* C24 as stated: a verification call goes through the stages extraction,
\* matching, anomaly check, decision, log write in this order and never
\* returns to an earlier stage; it ends with exactly one terminal status,
\* and a failure inside the engine ends it with the fail-closed result.
C24_StagesInOrder ==
    /\ [][Stage(CallNext) >= Stage(Call)]_vars
    /\ [][Call.res # NoVerdict => CallNext.res = Call.res]_vars
    /\ [](Call.raised /\ Call.pc = "responded" =>
             /\ Call.match = [is_match |-> FALSE, confidence |-> 0, risk |-> One]
             /\ Call.res.status = "failed")
    /\ <>(Call.pc = "responded" /\ Terminal(Call))

\* C24 amended: the call runs its statements once each in the order of the
\* code and never goes back: extraction and matching alternate channel by
\* channel (typing extracted and matched, then touch extracted and matched,
\* then the device matched), the anomaly check extracts the typing features
\* a second time, then come the decision, the log write and the response.
\* The status is set once and is the one logged; the call ends; an exception
\* that reaches the engine's except clause ends it with the fail-closed
\* result, logged as failed, without a second attempt.
C24_StraightLine ==
    /\ [][Order(CallNext.pc) > Order(Call.pc)]_vars
    /\ [][Call.res # NoVerdict => CallNext.res = Call.res]_vars
    /\ [](Order(Call.pc) >= 7 =>
             Call.match = verify_behavioral_match(current_data, CallProfile))
    /\ [](Call.raised /\ Order(Call.pc) >= 8 =>
             /\ Call.match = [is_match |-> FALSE, confidence |-> 0, risk |-> One]
             /\ Call.res.status = "failed")
    /\ [](Order(Call.pc) >= 9 => Terminal(Call))
    /\ <>(Call.pc = "responded" /\ Terminal(Call))

\* C24 witness: a call that extracted and matched typing and touch, matched
\* the device, and was answered with success
C24_Witness ==
    /\ Call.pc = "responded"
    /\ Len(Call.confidence_factors) = 3
    /\ TypingApplies /\ TouchApplies
    /\ Call.res.status = "success"
    /\ result.res = Call.res

\* the tags the two web rules give for a sample and a stored web profile
WebTagsByRule(sample, profile) ==
    (IF RoboticMouse(sample) THEN {"robotic_mouse_movements"} ELSE {})
    \cup (IF FingerprintMismatch(sample, profile)
          THEN {"browser_fingerprint_mismatch"} ELSE {})

\* C25: the web detector returns robotic_mouse_movements exactly when the
\* sample's mouse speed deviation is available and below 0.1, and
\* browser_fingerprint_mismatch exactly when the share of the stored
\* fingerprint attributes the sample matches is below 0.3, each once and
\* nothing else; the risk of the call carries 0.15 for each of them.
C25_WebAnomalyTags ==
    (WebCall /\ current_data.kind = "dict") =>
        LET profile == stored_profile.data.web_profile
            tags == _detect_web_anomalies(current_data, profile)
            byRule == WebTagsByRule(current_data, profile)
        IN  /\ TagSet(tags) = byRule
            /\ Len(tags) = Cardinality(byRule)
            /\ result.match.risk
                  = Clamp(One - result.match.confidence + Pct(15) * Cardinality(byRule))

\* C25 witness: a web call whose single mouse movement is tagged robotic
\* while its fingerprint matches the stored one, and the risk stays under 1
C25_Witness ==
    /\ WebCall
    /\ current_data.kind = "dict"
    /\ stored_profile.data.web_profile.browser_fingerprint # Empty
    /\ WebTagsByRule(current_data, stored_profile.data.web_profile)
          = {"robotic_mouse_movements"}
    /\ result.match.risk = One - result.match.confidence + Pct(15)
    /\ result.match.risk < One

\* a mobile verification was answered with a result
Verified == result # NoResult /\ result.view = "BiometricVerificationView" /\ result.http = 200

\* a profile row that holds the model's defaults in every field the matcher
\* reads: no typing or touch baseline, no trusted device
DefaultsOnly(row) == row.exists /\ ProfileOf(row) = DefaultMobileProfile

\* C26: a profile that was created and changed through the collection
\* endpoint only holds the defaults in every field the matcher reads, however
\* many samples were collected from whatever devices, and every mobile
\* verification against such a profile returns confidence 0 and status
\* failed, whatever the sample.
C26_CollectionOnlyNeverVerifies ==
    /\ [][\A u \in Users :
             (~profiles[u].exists \/ DefaultsOnly(profiles[u])) =>
                (~profiles'[u].exists \/ DefaultsOnly(profiles'[u]))]_vars
    /\ []((Verified /\ DefaultsOnly(profiles[result.user])) =>
             /\ result.res.confidence_score = 0
             /\ result.res.status = "failed"
             /\ ~result.res.is_verified)

\* C26 witness: two samples were collected, and a verification with every
\* channel filled, from a device the samples came from, has failed
C26_Witness ==
    /\ Verified
    /\ DefaultsOnly(profiles[result.user])
    /\ profiles[result.user].samples_collected = 2
    /\ current_data.touch_patterns.swipe_speeds # <<>>
    /\ current_data.device_characteristics.kind = "dict"
    /\ result.res.status = "failed"

\* the score each channel adds to the confidence of a mobile call: 0 for a
\* channel the matcher skips
TypingContribution(sample, profile) ==
    IF Present(sample.typing_pattern) /\ profile.typical_hold_times # Empty
    THEN Weighted(_verify_typing_pattern(sample.typing_pattern, profile), 50) ELSE 0

TouchContribution(sample, profile) ==
    IF Present(sample.touch_patterns) /\ Truthy(profile.avg_swipe_speed)
    THEN Weighted(_verify_touch_patterns(sample.touch_patterns, profile), 30) ELSE 0

DeviceContribution(sample, profile) ==
    IF Present(sample.device_characteristics)
    THEN Weighted(_verify_device(sample.device_characteristics, profile), 20) ELSE 0

AllChannelsContribute(sample, profile) ==
    /\ sample.kind = "dict"
    /\ Present(sample.typing_pattern) /\ TypingContribution(sample, profile) > 0
    /\ Present(sample.touch_patterns) /\ TouchContribution(sample, profile) > 0
    /\ Present(sample.device_characteristics) /\ DeviceContribution(sample, profile) > 0

\* C27: in the mobile matcher is_match holds only when typing, touch and
\* device all add a positive score; when one of them is absent from the
\* sample or scores 0 the confidence is below 0.70 and the status is not
\* success.
C27_MatchNeedsAllChannels ==
    MobileCall =>
        /\ result.match.is_match => AllChannelsContribute(current_data, MobileProfileRead)
        /\ ~AllChannelsContribute(current_data, MobileProfileRead) =>
              /\ result.match.confidence < Pct(70)
              /\ result.res.status # "success"
              /\ ~result.res.is_verified

\* C27 witness: a call that matched, and one channel less would not have
C27_Witness ==
    /\ MobileCall
    /\ result.match.is_match
    /\ result.res.status = "success"
    /\ AllChannelsContribute(current_data, MobileProfileRead)
    /\ result.match.confidence - DeviceContribution(current_data, MobileProfileRead) < Pct(70)

\* a web collection request that was answered with 201
WebCollected(r) == Ingested(r) /\ r.view = "WebDataCollectionView"

Collection(r) ==
    /\ r # NoResult
    /\ r.view \in {"BiometricDataCollectionView", "WebDataCollectionView"}

\* C29: a collection request, mobile or web, that names the session_id of
\* another user's session fails and changes nothing: no record is created,
\* no session changes (the other user's keeps its data_points_collected) and
\* no profile changes.
C29_ForeignSessionChangesNothing ==
    [][(/\ Collection(result')
        /\ upd' = upd
        /\ sessions[result'.session_id].exists
        /\ sessions[result'.session_id].user # result'.user) =>
          /\ result'.http = 500
          /\ records' = records
          /\ sessions' = sessions
          /\ profiles' = profiles
          /\ cross_profiles' = cross_profiles]_vars

\* C29 witness: u1 has collected a sample, then named u2's session s2: the
\* request failed, s2 is u2's and has counted nothing, u1 has one record
C29_Witness ==
    /\ Collection(result)
    /\ result.http = 500
    /\ result.user = "u1"
    /\ result.session_id = "s2"
    /\ sessions["s2"].user = "u2"
    /\ sessions["s2"].data_points_collected = 0
    /\ records["u1"] = 1
    /\ profiles["u1"].samples_collected = 1

\* C30 as stated: a session closed by end_biometric_session stays closed and
\* stops counting: no later operation sets is_active back to true, and a
\* later collection request that names its session_id leaves its
\* data_points_collected as it is.
C30_ClosedSessionStopsCounting ==
    [][\A sid \in StoredSessionIds :
          (sessions[sid].exists /\ ~sessions[sid].is_active) =>
             /\ sessions'[sid].exists
             /\ ~sessions'[sid].is_active
             /\ sessions'[sid].data_points_collected
                   = sessions[sid].data_points_collected]_vars

=============================================================================
